---------------------------- MODULE Spec2Model ----------------------------
(***************************************************************************)
(* Model of the repository ingestion route (POST /api/github): locator     *)
(* parsing, file classification, budgeted selection, batched content       *)
(* fetching and content normalisation.                                     *)
(*                                                                         *)
(* Strings are modelled as sequences of tokens.  A token is a run of       *)
(* characters that the code never looks inside ("acme", "github.com"), or  *)
(* one of the separators the code splits on ("/", " ", "https://").  A     *)
(* repository path is a sequence of segments (split on "/"); a segment is  *)
(* the sequence of its dot-separated parts (split on ".").                 *)
(***************************************************************************)
EXTENDS Integers, Sequences, FiniteSets, TLC

(***************************************************************************)
(* Program constants.                                                      *)
(***************************************************************************)
MAX_FILE_SIZE == 100000
MAX_TOTAL_SIZE == 500000
MAX_FILES == 50
BATCH_SIZE == 10

(***************************************************************************)
(* Bounds of the model.                                                    *)
(***************************************************************************)
\* Longest list of free entries at the head of a tree listing.
MaxHead == 2

(***************************************************************************)
(* JavaScript values.                                                      *)
(***************************************************************************)
\* The string that stands for JavaScript's undefined where a string may be.
Undefined == <<"<undefined>">>
\* The empty string.
Empty == <<>>
\* The size of a tree entry that carries no size field.
NoSize == -1
\* JavaScript truthiness of an optional string.
Truthy(s) == s # Undefined /\ s # Empty
\* (n || 0) for an optional size.
SizeOr0(n) == IF n = NoSize THEN 0 ELSE n

Last(s) == s[Len(s)]
Front(s) == SubSeq(s, 1, Len(s) - 1)

\* String.prototype.toLowerCase on one token.
toLowerCase(t) ==
  CASE t = "PY" -> "py"
    [] t = "R" -> "r"
    [] t = "GitHub.com" -> "github.com"
    [] t = "Dockerfile" -> "dockerfile"
    [] t = "Makefile" -> "makefile"
    [] t = "Hello-World" -> "hello-world"
    [] OTHER -> t

(***************************************************************************)
(* parseGitHubUrl                                                          *)
(***************************************************************************)
\* Tokens made only of characters in [a-zA-Z0-9_.-].
WordTokens ==
  {"octocat", "Hello-World", "acme", "widgets", "tree", "dev", "blob",
   "github.com", "GitHub.com", "gitlab.com", ".git", "not", "a", "url",
   "issues"}
\* Tokens that begin a URL the URL constructor accepts.
SchemeTokens == {"https://", "http://"}

RECURSIVE TrimLeft(_)
TrimLeft(s) == IF s # <<>> /\ Head(s) = " " THEN TrimLeft(Tail(s)) ELSE s
RECURSIVE TrimRight(_)
TrimRight(s) == IF s # <<>> /\ Last(s) = " " THEN TrimRight(Front(s)) ELSE s
\* String.prototype.trim
Trim(s) == TrimRight(TrimLeft(s))
\* .replace(/\.git$/, '')
StripGit(s) == IF s # <<>> /\ Last(s) = ".git" THEN Front(s) ELSE s
\* .replace(/\/$/, '')
StripSlash(s) == IF s # <<>> /\ Last(s) = "/" THEN Front(s) ELSE s

RECURSIVE SplitOn(_, _)
\* String.prototype.split(sep): the pieces between the separator tokens.
SplitOn(s, sep) ==
  IF \A k \in 1..Len(s) : s[k] # sep
    THEN <<s>>
    ELSE LET k == CHOOSE j \in 1..Len(s) :
                    s[j] = sep /\ \A h \in 1..(j - 1) : s[h] # sep
         IN  <<SubSeq(s, 1, k - 1)>> \o SplitOn(SubSeq(s, k + 1, Len(s)), sep)

\* Mutant: the empty pieces are kept.
FilterBoolean_Identity(ss) == ss
\* .filter(Boolean) on a list of strings.
FilterBoolean(ss) == SelectSeq(ss, LAMBDA x : x # <<>>)

IsWord(s) == s # <<>> /\ \A k \in 1..Len(s) : s[k] \in WordTokens

\* /^[a-zA-Z0-9_.-]+\/[a-zA-Z0-9_.-]+$/.test(cleaned)
IsShortFormat(cleaned) ==
  LET pieces == SplitOn(cleaned, "/")
  IN  Len(pieces) = 2 /\ IsWord(pieces[1]) /\ IsWord(pieces[2])

\* new URL(cleaned) does not throw: a scheme, then a host with no space.
UrlParses(cleaned) ==
  /\ cleaned # <<>>
  /\ Head(cleaned) \in SchemeTokens
  /\ LET host == Head(SplitOn(Tail(cleaned), "/"))
     IN  IsWord(host)
\* urlObj.hostname: the host, lower-cased by the URL parser.
UrlHostname(cleaned) ==
  LET host == Head(SplitOn(Tail(cleaned), "/"))
  IN  [k \in 1..Len(host) |-> toLowerCase(host[k])]
\* urlObj.pathname split on "/".
UrlPathPieces(cleaned) == Tail(SplitOn(Tail(cleaned), "/"))

\* The null result of parseGitHubUrl.
Null == [isNull |-> TRUE]
\* Mutant: owner and repository are lower-cased.
Parsed_LowerCase(o, r, b) ==
  [isNull |-> FALSE, owner |-> [k \in 1..Len(o) |-> toLowerCase(o[k])],
   repo |-> [k \in 1..Len(r) |-> toLowerCase(r[k])], branch |-> b]
\* { owner, repo, branch }
Parsed(o, r, b) == [isNull |-> FALSE, owner |-> o, repo |-> r, branch |-> b]

parseGitHubUrl(url) ==
  \* url.trim() on a value that is no string throws inside the try: null.
  IF url = Undefined THEN Null
  ELSE
  LET cleaned == StripSlash(StripGit(Trim(url)))
  IN  IF IsShortFormat(cleaned)
        THEN LET pieces == SplitOn(cleaned, "/")
             IN  Parsed(pieces[1], pieces[2], Undefined)
      ELSE IF ~UrlParses(cleaned) THEN Null
      ELSE IF UrlHostname(cleaned) # <<"github.com">> THEN Null
      ELSE LET parts == FilterBoolean(UrlPathPieces(cleaned))
           IN  IF Len(parts) < 2 THEN Null
               ELSE Parsed(parts[1], parts[2],
                           IF Len(parts) >= 4 /\ parts[3] = <<"tree">>
                             THEN parts[4] ELSE Undefined)

(***************************************************************************)
(* shouldIncludeFile and getLanguageFromPath                               *)
(***************************************************************************)
\* A one-part segment (a name without a dot).
Name(t) == <<t>>
\* A segment that starts with a dot: ".git" splits into "" and "git".
DotName(t) == <<"", t>>

CODE_EXTENSIONS ==
  {<<".", e>> : e \in
    {"js", "jsx", "ts", "tsx", "mjs", "cjs", "py", "pyw", "java", "kt", "kts",
     "scala", "go", "rs", "c", "cpp", "cc", "cxx", "h", "hpp", "cs", "rb",
     "php", "swift", "dart", "vue", "svelte", "sol", "r", "R", "lua", "sh",
     "bash", "zsh", "sql", "graphql", "gql", "yml", "yaml", "json", "xml",
     "toml", "cfg", "ini", "conf", "md", "mdx", "html", "css", "scss", "sass",
     "less", "dockerfile", "tf", "prisma", "proto"}}

SKIP_DIRS ==
  {Name(d) : d \in {"node_modules", "dist", "build", "out", "__pycache__",
                    "vendor", "target", "bin", "obj", "coverage", "venv",
                    "env", "eggs"}}
  \cup
  {DotName(d) : d \in {"git", "next", "cache", "idea", "vscode", "nyc_output",
                       "tox", "venv", "env", "eggs"}}

SKIP_FILES ==
  {<<"package-lock", "json">>, <<"yarn", "lock">>, <<"pnpm-lock", "yaml">>,
   <<"composer", "lock">>, <<"Gemfile", "lock">>, <<"Cargo", "lock">>,
   <<"go", "sum">>, <<"poetry", "lock">>, <<"Pipfile", "lock">>}

\* Mutant: the extension is taken without the test for a dot.
FileExt_NoDotTest(fileName) == <<".", toLowerCase(Last(fileName))>>

\* fileName.includes('.') ? '.' + fileName.split('.').pop()?.toLowerCase() : ''
FileExt(fileName) ==
  IF Len(fileName) >= 2 THEN <<".", toLowerCase(Last(fileName))>> ELSE Empty

\* Mutant: only the directory that holds the file is tested.
shouldIncludeFile_ParentOnly(path) ==
  LET fileName == Last(path)
      ext == FileExt(fileName)
  IN  IF Len(path) >= 2 /\ path[Len(path) - 1] \in SKIP_DIRS THEN FALSE
      ELSE IF fileName \in SKIP_FILES THEN FALSE
      ELSE IF ext = Empty THEN FALSE
      ELSE IF fileName = Name("Dockerfile") \/ fileName = Name("Makefile")
        THEN TRUE
      ELSE ext \in CODE_EXTENSIONS

shouldIncludeFile(path) ==
  LET fileName == Last(path)
      ext == FileExt(fileName)
  IN  IF \E k \in 1..(Len(path) - 1) : path[k] \in SKIP_DIRS THEN FALSE
      ELSE IF fileName \in SKIP_FILES THEN FALSE
      ELSE IF ext = Empty THEN FALSE
      ELSE IF fileName = Name("Dockerfile") \/ fileName = Name("Makefile")
        THEN TRUE
      ELSE ext \in CODE_EXTENSIONS

\* langMap[ext] || 'Unknown', for the part after the last dot.
langMap(e) ==
  CASE e \in {"js", "jsx", "mjs", "cjs"} -> "JavaScript"
    [] e \in {"ts", "tsx"} -> "TypeScript"
    [] e \in {"py", "pyw"} -> "Python"
    [] e = "java" -> "Java"
    [] e \in {"kt", "kts"} -> "Kotlin"
    [] e = "scala" -> "Scala"
    [] e = "go" -> "Go"
    [] e = "rs" -> "Rust"
    [] e \in {"c", "h"} -> "C"
    [] e \in {"cpp", "cc", "cxx", "hpp"} -> "C++"
    [] e = "cs" -> "C#"
    [] e = "rb" -> "Ruby"
    [] e = "php" -> "PHP"
    [] e = "swift" -> "Swift"
    [] e = "dart" -> "Dart"
    [] e = "vue" -> "Vue"
    [] e = "svelte" -> "Svelte"
    [] e = "sol" -> "Solidity"
    [] e \in {"r", "R"} -> "R"
    [] e = "lua" -> "Lua"
    [] e \in {"sh", "bash", "zsh"} -> "Shell"
    [] e = "sql" -> "SQL"
    [] e = "html" -> "HTML"
    [] e = "css" -> "CSS"
    [] e = "scss" -> "SCSS"
    [] e = "sass" -> "Sass"
    [] e = "less" -> "Less"
    [] e = "json" -> "JSON"
    [] e \in {"yml", "yaml"} -> "YAML"
    [] e = "toml" -> "TOML"
    [] e = "md" -> "Markdown"
    [] e = "mdx" -> "MDX"
    [] e \in {"graphql", "gql"} -> "GraphQL"
    [] e = "proto" -> "Protocol Buffers"
    [] e = "prisma" -> "Prisma"
    [] e = "tf" -> "Terraform"
    [] e = "xml" -> "XML"
    [] OTHER -> "Unknown"

\* '.' + path.split('.').pop()?.toLowerCase(), looked up in langMap.  The
\* split is over the whole path: when the file name has no dot, the last
\* piece holds a "/" (no key of langMap does) unless the path is one name.
getLanguageFromPath(path) ==
  LET fileName == Last(path)
  IN  IF Len(fileName) >= 2 THEN langMap(toLowerCase(Last(fileName)))
      ELSE IF Len(path) = 1 THEN langMap(toLowerCase(fileName[1]))
      ELSE "Unknown"

(***************************************************************************)
(* Content decoding: Buffer.from(content, 'base64').toString('utf-8')      *)
(***************************************************************************)
\* The padding character "=" among the sextets 0..63.
Pad64 == 64
\* The code point U+FFFD that replaces bytes that are not UTF-8.
Replacement == 65533

\* A line feed among the sextets: the service breaks its base64 into lines.
Newline64 == 65

RECURSIVE DecodeGroups(_)
\* The bytes of a base64 string given as its sextets, four at a time.
DecodeGroups(sx) ==
  IF Len(sx) < 4 THEN <<>>
  ELSE LET a == sx[1]
           b == sx[2]
           c == sx[3]
           d == sx[4]
           b1 == (a * 4 + (b \div 16)) % 256
           b2 == ((b % 16) * 16 + (c \div 4)) % 256
           b3 == ((c % 4) * 64 + d) % 256
           group == IF c = Pad64 THEN <<b1>>
                    ELSE IF d = Pad64 THEN <<b1, b2>>
                    ELSE <<b1, b2, b3>>
       IN  group \o DecodeGroups(SubSeq(sx, 5, Len(sx)))

\* Mutant: the line feeds are decoded as if they were sextets.
Base64Decode_KeepsNewlines(sx) == DecodeGroups(sx)

\* Buffer.from(content, 'base64'): characters outside the alphabet, the
\* line feeds, are skipped.
Base64Decode(sx) == DecodeGroups(SelectSeq(sx, LAMBDA c : c # Newline64))

\* The text of a byte string: ASCII bytes are their own code points, any
\* other byte becomes the replacement character.
Utf8ToString(bytes) ==
  [k \in 1..Len(bytes) |-> IF bytes[k] < 128 THEN bytes[k] ELSE Replacement]

\* decoded.includes('\0')
IncludesNul(text) == \E k \in 1..Len(text) : text[k] = 0

(***************************************************************************)
(* What the request and the hosting service may carry.                     *)
(***************************************************************************)
\* A tree entry of the recursive listing; size is NoSize when absent.
Entry(p, s, t) == [path |-> p, size |-> s, type |-> t]

\* The entries a listing may start with.
HeadPool ==
  { Entry(<< <<"a", "py">> >>, 50, "blob"),
    Entry(<< <<"b">>, <<"node_modules">>, <<"c", "js">> >>, 10, "blob"),
    Entry(<< <<"d", "md">> >>, 5000, "blob"),
    Entry(<< <<"e", "sql">> >>, 50, "blob"),
    Entry(<< <<"big", "ts">> >>, MAX_FILE_SIZE + 1, "blob"),
    Entry(<< <<"nosize", "rs">> >>, NoSize, "blob"),
    Entry(<< <<"src">> >>, NoSize, "tree") }

\* The sequences of at most n distinct members of S.
RECURSIVE SeqsNoRepeat(_, _)
SeqsNoRepeat(S, n) ==
  IF n = 0 THEN {<<>>}
  ELSE LET shorter == SeqsNoRepeat(S, n - 1)
       IN  shorter \cup
           {Append(q, x) : <<q, x>> \in
              {qx \in shorter \X S :
                 /\ Len(qx[1]) = n - 1
                 /\ \A k \in 1..Len(qx[1]) : qx[1][k] # qx[2]}}

RECURSIVE SeqsUpTo(_, _)
\* The sequences of at most n members of S.
SeqsUpTo(S, n) ==
  IF n = 0 THEN {<<>>}
  ELSE LET shorter == SeqsUpTo(S, n - 1)
       IN  shorter \cup {Append(q, x) : q \in {h \in shorter : Len(h) = n - 1},
                                        x \in S}

\* n generated source files src/<k>.ts of one size.
Filler(n, size) ==
  [k \in 1..n |-> Entry(<< <<"src">>, <<ToString(k), "ts">> >>, size, "blob")]

\* The long listings: enough files to exhaust the total-size budget, to
\* need a second batch, and to exhaust the file-count budget.
LongTrees ==
  { <<Entry(<< <<"edge", "go">> >>, MAX_FILE_SIZE, "blob")>>
      \o Filler(MAX_TOTAL_SIZE \div MAX_FILE_SIZE, MAX_FILE_SIZE),
    <<Entry(<< <<"a", "py">> >>, 50, "blob")>>
      \o Filler(MAX_TOTAL_SIZE \div MAX_FILE_SIZE, MAX_FILE_SIZE),
    <<Entry(<< <<"d", "md">> >>, 5000, "blob")>> \o Filler(BATCH_SIZE + 1, 7),
    <<Entry(<< <<"d", "md">> >>, 5000, "blob")>> \o Filler(MAX_FILES + 1, 7) }

\* The listings the tree endpoint may return.
Trees == SeqsNoRepeat(HeadPool, MaxHead) \cup LongTrees

\* The request bodies.  json is FALSE when request.json() throws.
Locators ==
  { Undefined,
    Empty,
    <<"not", " ", "a", " ", "url">>,
    <<"https://", "gitlab.com", "/", "acme", "/", "widgets">>,
    <<"octocat", "/", "Hello-World">>,
    <<"https://", "github.com", "/", "acme", "/", "widgets", "/", "tree",
      "/", "dev">> }
Branches == {Undefined, <<"feat">>}
Bodies ==
  {[json |-> FALSE, repoUrl |-> Undefined, branch |-> Undefined]}
  \cup [json : {TRUE}, repoUrl : Locators, branch : Branches]

\* An upstream answer: a thrown network error, a status, or (ok) a payload.
Throws == [kind |-> "throw"]
Status(n) == [kind |-> "status", status |-> n]
MetaResponses ==
  {Throws, Status(404), Status(403), Status(500)}
  \cup {[kind |-> "ok", default_branch |-> b] : b \in {Undefined, <<"trunk">>}}
TreeResponses ==
  {Throws, Status(404), Status(409), [kind |-> "ok"]}
  \cup {[kind |-> "ok", tree |-> t] : t \in Trees}
\* Mutant: a response that is not ok is taken for ok (a missing return).
ResOk_True(r) == TRUE
\* res.ok: the answer carries a 2xx status.
ResOk(r) == r.kind = "ok"
\* The answer as the handler keeps it, without its payload.
Res(r) == IF r.kind = "status" THEN r ELSE [kind |-> r.kind]
NoRes == [kind |-> "none"]

\* Content payloads: "hi", "a" followed by a null byte, and the empty file.
TextHi == <<26, 6, 36, Pad64>>
TextNul == <<24, 16, 0, Pad64>>
Payload(enc, c) == [kind |-> "ok", encoding |-> enc, content |-> c]
\* The answers to the content request of a file listed with its size, and
\* of a file listed without one.
ContentResponses ==
  {Throws, Payload("base64", TextHi), Payload("base64", TextNul)}
OddContentResponses ==
  {Status(403), Payload("base64", TextHi), Payload("none", Empty)}

(***************************************************************************)
(* The files the service holds, for the content normaliser.                *)
(***************************************************************************)
\* Longest file text, in bytes.
MaxText == 4
\* Sextets on one line of the base64 the service sends.
Base64Line == 4
\* The bytes of a file: a null byte, "h", "i", and a byte that is no UTF-8.
TextBytes == {0, 104, 105, 200}

RECURSIVE EncodeGroups(_)
\* The sextets of a byte string, three bytes at a time, padded.
EncodeGroups(bytes) ==
  IF bytes = <<>> THEN <<>>
  ELSE LET n == Len(bytes)
           a == bytes[1]
           b == IF n >= 2 THEN bytes[2] ELSE 0
           c == IF n >= 3 THEN bytes[3] ELSE 0
           s1 == a \div 4
           s2 == (a % 4) * 16 + (b \div 16)
           s3 == (b % 16) * 4 + (c \div 64)
           s4 == c % 64
           group == IF n = 1 THEN <<s1, s2, Pad64, Pad64>>
                    ELSE IF n = 2 THEN <<s1, s2, s3, Pad64>>
                    ELSE <<s1, s2, s3, s4>>
       IN  group \o EncodeGroups(SubSeq(bytes, 4, n))

RECURSIVE WrapLines(_)
\* A line feed after every Base64Line sextets and at the end.
WrapLines(sx) ==
  IF sx = <<>> THEN <<>>
  ELSE IF Len(sx) <= Base64Line THEN Append(sx, Newline64)
  ELSE SubSeq(sx, 1, Base64Line) \o <<Newline64>>
         \o WrapLines(SubSeq(sx, Base64Line + 1, Len(sx)))

\* The content field the service sends for a file of these bytes.
Base64Encode(bytes) == WrapLines(EncodeGroups(bytes))

\* The ok answer for a file of these bytes; bytes is what the service holds.
Served(bytes) ==
  [kind |-> "ok", encoding |-> "base64", content |-> Base64Encode(bytes),
   bytes |-> bytes]

\* Selected files of a one-file repository: a mapped extension in a
\* directory, an unmapped one, an upper-case one, and files listed with
\* size 0 and with no size.
NormFiles ==
  { Entry(<< <<"docs">>, <<"guide", "md">> >>, 12, "blob"),
    Entry(<< <<"app", "cfg">> >>, 12, "blob"),
    Entry(<< <<"stats", "R">> >>, 0, "blob"),
    Entry(<< <<"main", "py">> >>, NoSize, "blob") }
\* The answers to the content request of such a file.
NormResponses ==
  {Throws, Status(404), Payload("none", Empty)}
  \cup {Served(t) : t \in SeqsUpTo(TextBytes, MaxText)}

\* The answers the content endpoint may give for one file.  The answer for
\* a generated file of a long listing is fixed by its number.
MayAnswer(file) ==
  IF file \in NormFiles THEN NormResponses
  ELSE IF Len(file.path) = 2 /\ file.path[1] = <<"src">>
    THEN CASE file.path[2][1] \in {"3", "12", "50"} -> {Status(404)}
           [] file.path[2][1] = "4" -> {Payload("base64", TextNul)}
           [] file.path[2][1] = "5" -> {Payload("base64", Empty)}
           [] OTHER -> {Payload("base64", TextHi)}
  ELSE IF file.size = NoSize THEN OddContentResponses
  ELSE ContentResponses

(***************************************************************************)
(* The POST handler.                                                       *)
(***************************************************************************)
VARIABLES
  pc,            \* where the handler is
  body,          \* the parsed request body
  parsed,        \* parseGitHubUrl(repoUrl)
  targetBranch,  \* the branch of the tree and content requests
  treeData,      \* the listing the tree endpoint returned
  allFiles,      \* the eligible files, sorted by size
  cursor,        \* the position of the selection walk in allFiles
  filesToFetch,  \* the selected files
  totalSize,     \* the summed sizes of the selected files
  i,             \* the offset of the current batch in filesToFetch
  batchResults,  \* the slots of the current batch, by position in filesToFetch
  results,       \* the records collected so far
  outstanding,   \* the requests started and not completed
  netlog,        \* every request issued to the hosting service, in order
  repoRes,       \* the answer of the metadata request
  treeRes,       \* the answer of the tree request
  answers,       \* the answer each content request got, by position
  reordered,     \* a content request completed before an earlier one
  response       \* the response returned

(***************************************************************************)
(* The state of the client components: RepoInput and Page.                 *)
(***************************************************************************)
VARIABLES
  repoUrl,        \* RepoInput: the text of the URL field
  fetching,       \* RepoInput: a fetch of /api/github is in flight
  fetchError,     \* RepoInput: the error message, or null
  fetchedFiles,   \* RepoInput: the records of the last fetch
  repoInfo,       \* RepoInput: owner, repo and branch of the last fetch, or null
  selectedPaths,  \* RepoInput: the set of selected paths
  treeItems,      \* RepoInput: the tree of the last fetch
  totalInRepo,    \* RepoInput: the number of code files in the repository
  submitted,      \* RepoInput: the last call of onSubmitRepo, or null
  code,           \* Page: the pasted code
  loading,        \* Page: a review is running (the loading prop of RepoInput)
  error,          \* Page: the error message, or null
  reviewResult,   \* Page: the stored review, or null
  activeAgentId,  \* Page: the agent at work, or null
  repoContext,    \* Page: the repository of the running review, or null
  loadingMessage, \* Page: the text shown while loading
  calls,          \* Page: the agent calls in flight
  started,        \* Page: the number of submissions started
  settled         \* Page: the agent call that returned last, or null

\* The null of a state that holds a string or null.
NoString == "<null>"
repoInputVars ==
  <<repoUrl, fetching, fetchError, fetchedFiles, repoInfo, selectedPaths,
    treeItems, totalInRepo, submitted>>
pageVars ==
  <<code, loading, error, reviewResult, activeAgentId, repoContext,
    loadingMessage, calls, started, settled>>

vars ==
  <<pc, body, parsed, targetBranch, treeData, allFiles, cursor, filesToFetch,
    totalSize, i, batchResults, results, outstanding, netlog, repoRes,
    treeRes, answers, reordered, response, repoInputVars, pageVars>>

\* The components as they are mounted: the defaults of their useState calls.
RepoInputInit ==
  /\ repoUrl = Empty
  /\ fetching = FALSE
  /\ fetchError = NoString
  /\ fetchedFiles = <<>>
  /\ repoInfo = Null
  /\ selectedPaths = {}
  /\ treeItems = <<>>
  /\ totalInRepo = 0
  /\ submitted = Null
PageInit ==
  /\ code = Empty
  /\ loading = FALSE
  /\ error = NoString
  /\ reviewResult = Null
  /\ activeAgentId = NoString
  /\ repoContext = Null
  /\ loadingMessage = "Analyzing your code..."
  /\ calls = {}
  /\ started = 0
  /\ settled = Null
\* The route handler runs on the server: the components do not move with it.
ClientIdle == RepoInputInit /\ PageInit

\* A request to the hosting service.  ref is the branch its URL names: the
\* tree and content URLs name targetBranch, the metadata URL names none.
Request(kind, idx, path) ==
  [kind |-> kind, idx |-> idx, path |-> path,
   ref |-> IF kind = "meta" THEN Undefined ELSE targetBranch]
MetaRequest == Request("meta", 0, <<>>)
TreeRequest == Request("tree", 0, <<>>)
ContentRequest(k, file) == Request("content", k, file.path)

NoResponse == [success |-> FALSE, status |-> 0, error |-> "pending"]
Failure(status, message) ==
  [success |-> FALSE, status |-> status, error |-> message]

\* The slots of a batch: a fetch not yet settled, a null result, a record.
Pending == [pending |-> TRUE]
NullFile == [isNull |-> TRUE]
\* The slot of a callback that threw: its promise is rejected.
Thrown == [thrown |-> TRUE]
FileRecord(p, c, s, l) == [path |-> p, content |-> c, size |-> s, language |-> l]

Init ==
  /\ pc = "start"
  /\ body \in Bodies
  /\ parsed = Null
  /\ targetBranch = Undefined
  /\ treeData = <<>>
  /\ allFiles = <<>>
  /\ cursor = 1
  /\ filesToFetch = <<>>
  /\ totalSize = 0
  /\ i = 0
  /\ batchResults = <<>>
  /\ results = <<>>
  /\ outstanding = {}
  /\ netlog = <<>>
  /\ repoRes = NoRes
  /\ treeRes = NoRes
  /\ answers = <<>>
  /\ reordered = FALSE
  /\ response = NoResponse
  /\ ClientIdle

\* The handler returns: nothing after it runs.
Return(r) == pc' = "done" /\ response' = r

\* The catch of the handler: any exception becomes a 500.
Caught == Failure(500, "exception")

\* const body = await request.json()
ReadBody ==
  /\ pc = "start"
  /\ IF body.json THEN pc' = "validate" /\ UNCHANGED response
     ELSE Return(Caught)
  /\ UNCHANGED <<body, parsed, targetBranch, treeData, allFiles, cursor,
                 filesToFetch, totalSize, i, batchResults, results,
                 outstanding, netlog, repoRes, treeRes, answers, reordered>>
  /\ UNCHANGED <<repoInputVars, pageVars>>

\* Mutant: the result of parseGitHubUrl is not checked for null.
ValidationFailure_NoParseCheck(b) ==
  IF ~Truthy(b.repoUrl) THEN Failure(400, "repoUrl is required")
  ELSE NoResponse

\* The response of the two validation checks, NoResponse when both pass.
ValidationFailure(b) ==
  IF ~Truthy(b.repoUrl) THEN Failure(400, "repoUrl is required")
  ELSE IF parseGitHubUrl(b.repoUrl) = Null
    THEN Failure(400, "Invalid GitHub URL")
  ELSE NoResponse

\* Mutant: the branch of the URL is preferred to the requested branch.
ChosenBranch_EmbeddedFirst(requestedBranch, p) ==
  IF Truthy(p.branch) THEN p.branch ELSE requestedBranch

\* Mutant: the requested branch is ignored.
ChosenBranch_UrlOnly(requestedBranch, p) == p.branch

\* requestedBranch || parsed.branch
ChosenBranch(requestedBranch, p) ==
  IF Truthy(requestedBranch) THEN requestedBranch ELSE p.branch

Validate ==
  /\ pc = "validate"
  /\ IF ValidationFailure(body) # NoResponse
       THEN /\ Return(ValidationFailure(body))
            /\ UNCHANGED <<parsed, targetBranch>>
       ELSE /\ parsed' = parseGitHubUrl(body.repoUrl)
            /\ IF parsed' = Null
                 \* const { owner, repo } = parsed throws on null
                 THEN Return(Caught) /\ UNCHANGED targetBranch
                 ELSE /\ targetBranch' = ChosenBranch(body.branch, parsed')
                      /\ pc' = "resolve"
                      /\ UNCHANGED response
  /\ UNCHANGED <<body, treeData, allFiles, cursor, filesToFetch, totalSize,
                 i, batchResults, results, outstanding, netlog, repoRes,
                 treeRes, answers, reordered>>
  /\ UNCHANGED <<repoInputVars, pageVars>>

Issue(reqs) ==
  /\ outstanding' = outstanding \cup {reqs[k] : k \in 1..Len(reqs)}
  /\ netlog' = netlog \o reqs

\* 1. Get default branch if not specified
RequestMeta ==
  /\ pc = "resolve"
  /\ IF ~Truthy(targetBranch)
       THEN Issue(<<MetaRequest>>) /\ pc' = "awaitMeta"
       ELSE UNCHANGED <<outstanding, netlog>> /\ pc' = "tree"
  /\ UNCHANGED <<body, parsed, targetBranch, treeData, allFiles, cursor,
                 filesToFetch, totalSize, i, batchResults, results, repoRes,
                 treeRes, answers, reordered, response>>
  /\ UNCHANGED <<repoInputVars, pageVars>>

\* Mutant: every metadata answer that is not ok is reported as not found.
MetaFailure_AlwaysNotFound(r) == Failure(404, "Repository not found")

\* The response to a metadata answer that is not ok.
MetaFailure(r) ==
  IF r.status = 404 THEN Failure(404, "Repository not found")
  ELSE Failure(r.status, "GitHub API error")

\* repoData.default_branch || 'main'
DefaultBranch(r) ==
  IF "default_branch" \in DOMAIN r /\ Truthy(r.default_branch)
    THEN r.default_branch ELSE <<"main">>

MetaResponds ==
  /\ pc = "awaitMeta"
  /\ MetaRequest \in outstanding
  /\ \E r \in MetaResponses :
       /\ outstanding' = outstanding \ {MetaRequest}
       /\ repoRes' = Res(r)
       /\ IF r.kind = "throw" THEN Return(Caught) /\ UNCHANGED targetBranch
          ELSE IF ~ResOk(r) THEN Return(MetaFailure(r)) /\ UNCHANGED targetBranch
          ELSE /\ targetBranch' = DefaultBranch(r)
               /\ pc' = "tree"
               /\ UNCHANGED response
  /\ UNCHANGED <<body, parsed, treeData, allFiles, cursor, filesToFetch,
                 totalSize, i, batchResults, results, netlog, treeRes,
                 answers, reordered>>
  /\ UNCHANGED <<repoInputVars, pageVars>>

\* 2. Get the full file tree recursively
RequestTree ==
  /\ pc = "tree"
  /\ Issue(<<TreeRequest>>)
  /\ pc' = "awaitTree"
  /\ UNCHANGED <<body, parsed, targetBranch, treeData, allFiles, cursor,
                 filesToFetch, totalSize, i, batchResults, results, repoRes,
                 treeRes, answers, reordered, response>>
  /\ UNCHANGED <<repoInputVars, pageVars>>

\* The response to a tree answer that is not ok.
TreeFailure(r) == Failure(r.status, "Failed to fetch repo tree")

\* treeData.tree || []
TreeOf(r) == IF "tree" \in DOMAIN r THEN r.tree ELSE <<>>

\* (treeData.tree || []).filter(blob && shouldIncludeFile)
Eligible(tree) ==
  SelectSeq(tree, LAMBDA item : item.type = "blob" /\ shouldIncludeFile(item.path))

RECURSIVE InsertBySize_Unstable(_, _)
\* Mutant: file is put before the members of its own size.
InsertBySize_Unstable(sorted, file) ==
  IF sorted = <<>> THEN <<file>>
  ELSE IF SizeOr0(Last(sorted).size) < SizeOr0(file.size)
    THEN Append(sorted, file)
  ELSE Append(InsertBySize_Unstable(Front(sorted), file), Last(sorted))

RECURSIVE InsertBySize(_, _)
\* file put after every member that is not larger: the sort is stable.
InsertBySize(sorted, file) ==
  IF sorted = <<>> THEN <<file>>
  ELSE IF SizeOr0(Last(sorted).size) <= SizeOr0(file.size)
    THEN Append(sorted, file)
  ELSE Append(InsertBySize(Front(sorted), file), Last(sorted))

RECURSIVE SortBySize(_)
\* allFiles.sort((a, b) => (a.size || 0) - (b.size || 0))
SortBySize(files) ==
  IF files = <<>> THEN <<>>
  ELSE InsertBySize(SortBySize(Front(files)), Last(files))

TreeResponds ==
  /\ pc = "awaitTree"
  /\ TreeRequest \in outstanding
  /\ \E r \in TreeResponses :
       /\ outstanding' = outstanding \ {TreeRequest}
       /\ treeRes' = Res(r)
       /\ IF r.kind = "throw"
            THEN Return(Caught) /\ UNCHANGED <<treeData, allFiles>>
          ELSE IF ~ResOk(r)
            THEN Return(TreeFailure(r)) /\ UNCHANGED <<treeData, allFiles>>
          ELSE /\ treeData' = TreeOf(r)
               /\ allFiles' = SortBySize(Eligible(TreeOf(r)))
               /\ pc' = "select"
               /\ UNCHANGED response
  /\ UNCHANGED <<body, parsed, targetBranch, cursor, filesToFetch, totalSize,
                 i, batchResults, results, netlog, repoRes, answers,
                 reordered>>
  /\ UNCHANGED <<repoInputVars, pageVars>>

\* Mutant: the file-count test is off by one.
Admit_CountOffByOne(file, count, total) ==
  IF count > MAX_FILES THEN "break"
  ELSE IF SizeOr0(file.size) > MAX_FILE_SIZE THEN "continue"
  ELSE IF total + SizeOr0(file.size) > MAX_TOTAL_SIZE THEN "break"
  ELSE "push"

\* Mutant: a candidate that fills the total budget exactly ends the walk.
Admit_TotalInclusive(file, count, total) ==
  IF count >= MAX_FILES THEN "break"
  ELSE IF SizeOr0(file.size) > MAX_FILE_SIZE THEN "continue"
  ELSE IF total + SizeOr0(file.size) >= MAX_TOTAL_SIZE THEN "break"
  ELSE "push"

\* Mutant: a candidate over the total budget is passed over and the walk
\* keeps scanning.
Admit_KeepsScanning(file, count, total) ==
  IF count >= MAX_FILES THEN "break"
  ELSE IF SizeOr0(file.size) > MAX_FILE_SIZE THEN "continue"
  ELSE IF total + SizeOr0(file.size) > MAX_TOTAL_SIZE THEN "continue"
  ELSE "push"

\* One iteration of the selection walk on a candidate: "break", "continue"
\* or "push".
Admit(file, count, total) ==
  IF count >= MAX_FILES THEN "break"
  ELSE IF SizeOr0(file.size) > MAX_FILE_SIZE THEN "continue"
  ELSE IF total + SizeOr0(file.size) > MAX_TOTAL_SIZE THEN "break"
  ELSE "push"

SelectStep ==
  /\ pc = "select"
  /\ IF cursor > Len(allFiles)
       THEN pc' = "fetch" /\ UNCHANGED <<cursor, filesToFetch, totalSize>>
       ELSE LET file == allFiles[cursor]
                verdict == Admit(file, Len(filesToFetch), totalSize)
            IN  CASE verdict = "break" ->
                       pc' = "fetch" /\ UNCHANGED <<cursor, filesToFetch, totalSize>>
                  [] verdict = "continue" ->
                       /\ cursor' = cursor + 1
                       /\ UNCHANGED <<pc, filesToFetch, totalSize>>
                  [] OTHER ->
                       /\ filesToFetch' = Append(filesToFetch, file)
                       /\ totalSize' = totalSize + SizeOr0(file.size)
                       /\ cursor' = cursor + 1
                       /\ UNCHANGED pc
  /\ UNCHANGED <<body, parsed, targetBranch, treeData, allFiles, i,
                 batchResults, results, outstanding, netlog, repoRes, treeRes,
                 answers, reordered, response>>
  /\ UNCHANGED <<repoInputVars, pageVars>>

Min(a, b) == IF a <= b THEN a ELSE b

\* Mutant: the slice has no end, filesToFetch.slice(i).
BatchOf_NoEnd(offset, files) ==
  [n \in 1..(Len(files) - offset) |-> offset + n]

\* The positions in files of files.slice(offset, offset + BATCH_SIZE).
BatchOf(offset, files) ==
  [n \in 1..(Min(offset + BATCH_SIZE, Len(files)) - offset) |-> offset + n]

\* 3. Fetch content for each file: batch.map starts every fetch of the batch.
StartBatch ==
  /\ pc = "fetch"
  /\ i < Len(filesToFetch)
  /\ LET batch == BatchOf(i, filesToFetch)
     IN  /\ Issue([n \in 1..Len(batch) |->
                     ContentRequest(batch[n], filesToFetch[batch[n]])])
         /\ batchResults' = [n \in 1..Len(batch) |-> Pending]
  /\ pc' = "awaitBatch"
  /\ UNCHANGED <<body, parsed, targetBranch, treeData, allFiles, cursor,
                 filesToFetch, totalSize, i, results, repoRes, treeRes,
                 answers, reordered, response>>
  /\ UNCHANGED <<repoInputVars, pageVars>>

\* Mutant: the callback has no try/catch, a thrown fetch rejects its promise.
FetchResult_NoCatch(file, r) ==
  IF r.kind = "throw" THEN Thrown
  ELSE IF r.kind # "ok" THEN NullFile
  ELSE IF r.encoding = "base64" /\ r.content # Empty
    THEN LET decoded == Utf8ToString(Base64Decode(r.content))
         IN  IF IncludesNul(decoded) THEN NullFile
             ELSE FileRecord(file.path, decoded,
                             IF SizeOr0(file.size) # 0 THEN file.size
                             ELSE Len(decoded),
                             getLanguageFromPath(file.path))
  ELSE NullFile

\* Mutant: the decoded text is not tested for a null byte.
FetchResult_NoBinaryTest(file, r) ==
  IF r.kind # "ok" THEN NullFile
  ELSE IF r.encoding = "base64" /\ r.content # Empty
    THEN LET decoded == Utf8ToString(Base64Decode(r.content))
         IN  FileRecord(file.path, decoded,
                        IF SizeOr0(file.size) # 0 THEN file.size
                        ELSE Len(decoded),
                        getLanguageFromPath(file.path))
  ELSE NullFile

\* The result of the callback of one file for one answer.
FetchResult(file, r) ==
  \* a thrown fetch is caught in the callback; a status that is not ok
  IF r.kind # "ok" THEN NullFile
  ELSE IF r.encoding = "base64" /\ r.content # Empty
    THEN LET decoded == Utf8ToString(Base64Decode(r.content))
         IN  IF IncludesNul(decoded) THEN NullFile
             ELSE FileRecord(file.path, decoded,
                             IF SizeOr0(file.size) # 0 THEN file.size
                             ELSE Len(decoded),
                             getLanguageFromPath(file.path))
  ELSE NullFile

ContentResponds ==
  /\ \E req \in outstanding :
       /\ req.kind = "content"
       /\ \E r \in MayAnswer(filesToFetch[req.idx]) :
            /\ outstanding' = outstanding \ {req}
            /\ answers' = [k \in DOMAIN answers \cup {req.idx} |->
                             IF k = req.idx THEN r ELSE answers[k]]
            /\ reordered' =
                 (reordered \/ \E o \in outstanding :
                                 o.kind = "content" /\ o.idx < req.idx)
            \* the callback returns into the slot of its own batch
            /\ batchResults' =
                 IF pc = "awaitBatch" /\ (req.idx - i) \in DOMAIN batchResults
                   THEN [batchResults EXCEPT
                           ![req.idx - i] = FetchResult(filesToFetch[req.idx], r)]
                   ELSE batchResults
  /\ UNCHANGED <<pc, body, parsed, targetBranch, treeData, allFiles, cursor,
                 filesToFetch, totalSize, i, results, netlog, repoRes,
                 treeRes, response>>
  /\ UNCHANGED <<repoInputVars, pageVars>>

\* Mutant: the join waits for the first callback only (Promise.race).
BatchSettled_Any(slots) == \E k \in DOMAIN slots : slots[k] # Pending

\* Promise.all resolves: every callback of the batch has returned.
BatchSettled(slots) == \A k \in DOMAIN slots : slots[k] # Pending
\* Promise.all rejects: some callback of the batch has thrown.
BatchRejected(slots) == \E k \in DOMAIN slots : slots[k] = Thrown

\* The sequence in the opposite order.
Reverse(q) == [n \in 1..Len(q) |-> q[Len(q) + 1 - n]]

\* Mutant: the records of a batch are collected last first.
Surviving_Reversed(slots) ==
  SelectSeq(Reverse(slots),
            LAMBDA x : x # NullFile /\ x # Pending /\ x # Thrown)

\* batchResults.filter(Boolean)
Surviving(slots) ==
  SelectSeq(slots, LAMBDA x : x # NullFile /\ x # Pending /\ x # Thrown)

JoinBatch ==
  /\ pc = "awaitBatch"
  /\ IF BatchRejected(batchResults)
       THEN Return(Caught) /\ UNCHANGED <<results, i>>
       ELSE /\ BatchSettled(batchResults)
            /\ results' = results \o Surviving(batchResults)
            /\ i' = i + BATCH_SIZE
            /\ pc' = "fetch"
            /\ UNCHANGED response
  /\ UNCHANGED <<body, parsed, targetBranch, treeData, allFiles, cursor,
                 filesToFetch, totalSize, batchResults, outstanding, netlog,
                 repoRes, treeRes, answers, reordered>>
  /\ UNCHANGED <<repoInputVars, pageVars>>

\* Mutant: truncatedFiles counts the selected files without a record only.
Success_SelectedOnly(p, branch, files, eligible) ==
  [success |-> TRUE, status |-> 200, owner |-> p.owner, repo |-> p.repo,
   branch |-> branch, files |-> files, totalFiles |-> Len(eligible),
   fetchedFiles |-> Len(files),
   truncatedFiles |-> Len(filesToFetch) - Len(files),
   tree |-> [k \in 1..Len(eligible) |->
               [path |-> eligible[k].path, size |-> eligible[k].size]]]

\* The body of the successful response.
Success(p, branch, files, eligible) ==
  [success |-> TRUE, status |-> 200, owner |-> p.owner, repo |-> p.repo,
   branch |-> branch, files |-> files, totalFiles |-> Len(eligible),
   fetchedFiles |-> Len(files),
   truncatedFiles |-> Len(eligible) - Len(files),
   tree |-> [k \in 1..Len(eligible) |->
               [path |-> eligible[k].path, size |-> eligible[k].size]]]

Respond ==
  /\ pc = "fetch"
  /\ i >= Len(filesToFetch)
  /\ Return(Success(parsed, targetBranch, results, allFiles))
  /\ UNCHANGED <<body, parsed, targetBranch, treeData, allFiles, cursor,
                 filesToFetch, totalSize, i, batchResults, results,
                 outstanding, netlog, repoRes, treeRes, answers, reordered>>
  /\ UNCHANGED <<repoInputVars, pageVars>>

Next ==
  \/ ReadBody
  \/ Validate
  \/ RequestMeta
  \/ MetaResponds
  \/ RequestTree
  \/ TreeResponds
  \/ SelectStep
  \/ StartBatch
  \/ ContentResponds
  \/ JoinBatch
  \/ Respond

Spec == Init /\ [][Next]_vars

\* Every content fetch eventually completes, and the handler runs on when
\* it can: the steps of the fetch stage are eventually taken.
FairSpec ==
  /\ Spec
  /\ WF_vars(StartBatch)
  /\ WF_vars(ContentResponds)
  /\ WF_vars(JoinBatch)
  /\ WF_vars(Respond)

(***************************************************************************)
(* Properties.                                                             *)
(***************************************************************************)
RECURSIVE SumSizes(_)
SumSizes(files) ==
  IF files = <<>> THEN 0
  ELSE SizeOr0(Head(files).size) + SumSizes(Tail(files))

Range(f) == {f[k] : k \in DOMAIN f}
Done == pc = "done"
Succeeded == Done /\ response.success
ContentOutstanding == {o \in outstanding : o.kind = "content"}
DiscoveryOutstanding == {o \in outstanding : o.kind \in {"meta", "tree"}}
\* The positions in filesToFetch whose content was requested.
Started == {r.idx : r \in {q \in Range(netlog) : q.kind = "content"}}
BatchNo(k) == (k - 1) \div BATCH_SIZE

\* The answer is a fetch failure: a thrown error or a status that is not ok.
FetchFailed(r) == r.kind \in {"throw", "status"}
\* The answer is a payload that is not base64.
NotBase64(r) == r.kind = "ok" /\ r.encoding # "base64"
\* The answer is a base64 payload with no content.
NoContent(r) == r.kind = "ok" /\ r.encoding = "base64" /\ r.content = Empty
\* The answer decodes to text that holds a null byte.
Binary(r) ==
  /\ r.kind = "ok" /\ r.encoding = "base64" /\ r.content # Empty
  /\ IncludesNul(Utf8ToString(Base64Decode(r.content)))
\* The answer decodes to text without a null byte.
GoodText(r) ==
  /\ r.kind = "ok" /\ r.encoding = "base64" /\ r.content # Empty
  /\ ~IncludesNul(Utf8ToString(Base64Decode(r.content)))
PathsOf(files) == {files[k].path : k \in 1..Len(files)}

\* C1: in every state, so after every iteration of the selection walk, the
\* selected set holds at most MAX_FILES files, their sizes (a missing size
\* counts 0) sum to at most MAX_TOTAL_SIZE, and none is over MAX_FILE_SIZE.
C1_BudgetsHold ==
  /\ Len(filesToFetch) <= MAX_FILES
  /\ SumSizes(filesToFetch) <= MAX_TOTAL_SIZE
  /\ totalSize = SumSizes(filesToFetch)
  /\ \A k \in 1..Len(filesToFetch) :
       SizeOr0(filesToFetch[k].size) <= MAX_FILE_SIZE
\* The walk has ended on the file-count budget, with candidates left over.
C1_Witness ==
  /\ pc = "fetch"
  /\ Len(filesToFetch) = MAX_FILES
  /\ cursor <= Len(allFiles)

\* The position in the selected set of the file of a path, 0 when absent.
PosSelected(path) ==
  IF \E k \in 1..Len(filesToFetch) : filesToFetch[k].path = path
    THEN CHOOSE k \in 1..Len(filesToFetch) : filesToFetch[k].path = path
    ELSE 0

\* The records are records of selected files, in the order of the selected
\* set.
InSelectedOrder(files) ==
  LET pos == [a \in 1..Len(files) |-> PosSelected(files[a].path)]
  IN  /\ \A a \in 1..Len(files) : pos[a] > 0
      /\ \A a \in 1..(Len(files) - 1) : pos[a] < pos[a + 1]

\* C2: whatever the order in which the content fetches complete, the
\* records collected, and the files of the successful response, are in the
\* relative order of the selected set.
C2_OutputInSelectedOrder ==
  /\ InSelectedOrder(results)
  /\ Succeeded => InSelectedOrder(response.files)
\* A successful response with two records or more, after fetches that
\* completed out of order.
C2_Witness == Succeeded /\ reordered /\ Len(response.files) >= 2

\* C3: no content fetch is outstanding that belongs to an earlier batch
\* than a content fetch already started.
C3_BatchesOneAfterAnother ==
  \A o \in ContentOutstanding :
    \A k \in Started : BatchNo(k) <= BatchNo(o.idx)
\* A fetch of the second batch is outstanding.
C3_Witness == \E o \in ContentOutstanding : BatchNo(o.idx) >= 1

\* C4: at most BATCH_SIZE content fetches are outstanding, at most one
\* discovery request is, and never a discovery request with a content fetch.
C4_OutstandingBounded ==
  /\ Cardinality(ContentOutstanding) <= BATCH_SIZE
  /\ Cardinality(DiscoveryOutstanding) <= 1
  /\ DiscoveryOutstanding # {} => ContentOutstanding = {}
\* A full batch is outstanding.
C4_Witness == Cardinality(ContentOutstanding) = BATCH_SIZE

\* Every selected file has had its content requested.
AllAttempted ==
  \A k \in 1..Len(filesToFetch) :
    ContentRequest(k, filesToFetch[k]) \in Range(netlog)

\* C5: when every fetch completes, the fetch stage, once entered, leads to
\* the successful response with every selected file attempted.
C5_FetchStageCompletes == (pc = "fetch") ~> (Succeeded /\ AllAttempted)
\* A run ended in success after a fetch of its first batch failed and a
\* later batch was fetched.
C5_Witness ==
  /\ Succeeded
  /\ Len(filesToFetch) > BATCH_SIZE
  /\ AllAttempted
  /\ \E k \in DOMAIN answers : k <= BATCH_SIZE /\ FetchFailed(answers[k])

\* C6: once a content fetch was answered the run ends in success; a file
\* whose fetch threw, was not ok or was not base64 has no record, and a
\* file answered with text has its record.
C6_PerFileFailureIsDropped ==
  (Done /\ answers # <<>>) =>
    /\ response.success
    /\ \A k \in DOMAIN answers :
         /\ (FetchFailed(answers[k]) \/ NotBase64(answers[k])) =>
              filesToFetch[k].path \notin PathsOf(response.files)
         /\ GoodText(answers[k]) =>
              filesToFetch[k].path \in PathsOf(response.files)
\* A successful response that holds a record, for a run in which a fetch
\* threw, one was not ok and one was not base64.
C6_Witness ==
  /\ Succeeded
  /\ response.files # <<>>
  /\ \E k \in DOMAIN answers : answers[k] = Throws
  /\ \E k \in DOMAIN answers : answers[k].kind = "status"

\* The selected files that got no record.
Dropped ==
  {k \in DOMAIN answers :
     \/ FetchFailed(answers[k])
     \/ NotBase64(answers[k])
     \/ NoContent(answers[k])
     \/ Binary(answers[k])}

\* C7 as stated: truncatedFiles is the number of selected files dropped.
C7_Original == Succeeded => response.truncatedFiles = Cardinality(Dropped)
\* C7: truncatedFiles is the number of eligible files left unselected plus
\* the number of selected files dropped; it is the number of dropped files
\* when every eligible file was selected.
C7_TruncatedCountsUnselectedToo ==
  Succeeded =>
    /\ response.truncatedFiles =
         (Len(allFiles) - Len(filesToFetch)) + Cardinality(Dropped)
    /\ Len(filesToFetch) = Len(allFiles) =>
         response.truncatedFiles = Cardinality(Dropped)
\* A successful response for a run that left an eligible file unselected
\* and dropped a selected one.
C7_Witness ==
  /\ Succeeded
  /\ Len(allFiles) > Len(filesToFetch)
  /\ Dropped # {}

\* The locator is missing, empty or rejected by parseGitHubUrl.
BadLocator ==
  body.json /\ (~Truthy(body.repoUrl) \/ parseGitHubUrl(body.repoUrl) = Null)

\* C8: with a missing, empty or rejected locator no request is ever issued,
\* and the response is a failure with status 400.
C8_BadLocatorNoNetwork ==
  BadLocator =>
    /\ netlog = <<>>
    /\ outstanding = {}
    /\ Done => ~response.success /\ response.status = 400
\* The run for "not a url" has ended.
C8_Witness ==
  /\ Done
  /\ body.json
  /\ body.repoUrl = <<"not", " ", "a", " ", "url">>

\* The status of a failed run, by its category.
StatusByCategory ==
  IF ~body.json THEN 500
  ELSE IF BadLocator THEN 400
  ELSE IF repoRes.kind = "throw" THEN 500
  ELSE IF repoRes.kind = "status"
    THEN (IF repoRes.status = 404 THEN 404 ELSE repoRes.status)
  ELSE IF treeRes.kind = "throw" THEN 500
  ELSE IF treeRes.kind = "status" THEN treeRes.status
  ELSE 0

\* C9: a failed run answers with the status of its category.
C9_StatusByCategory ==
  (Done /\ ~response.success) => response.status = StatusByCategory
\* The metadata lookup was refused with a status that is not 404.
C9_Witness ==
  /\ Done
  /\ repoRes = Status(403)
  /\ response.status = 403

\* A terminal failure: a bad locator, or a failed metadata or tree request.
TerminalFailure ==
  \/ BadLocator
  \/ FetchFailed(repoRes)
  \/ FetchFailed(treeRes)

\* C10: after a terminal failure the run ends with an error message and no
\* files, and no content request is ever issued.
C10_TerminalFailureAborts ==
  TerminalFailure =>
    /\ Started = {}
    /\ ContentOutstanding = {}
    /\ pc \notin {"select", "fetch", "awaitBatch"}
    /\ Done =>
         /\ ~response.success
         /\ DOMAIN response = {"success", "status", "error"}
\* The tree listing was refused and the run has ended.
C10_Witness == Done /\ treeRes = Status(404)

(***************************************************************************)
(* The branch of the run.                                                  *)
(***************************************************************************)
\* The requests that name a branch: the tree listing and the content fetches.
BranchRequests == {q \in Range(netlog) : q.kind \in {"tree", "content"}}
\* Every branch request and the successful response name branch b.
RunUsesBranch(b) ==
  /\ \A q \in BranchRequests : q.ref = b
  /\ Succeeded => response.branch = b

\* C11: a non-empty branch in the request body is the branch of the tree
\* listing, of every content fetch and of the response, whatever branch the
\* URL carries; the branch of the URL is used only when the body has none.
C11_ExplicitBranchWins ==
  /\ Truthy(body.branch) => RunUsesBranch(body.branch)
  /\ (~Truthy(body.branch) /\ parsed # Null /\ Truthy(parsed.branch))
       => RunUsesBranch(parsed.branch)
\* A run on .../tree/dev with the branch feat requested has fetched content
\* and answered.
C11_Witness ==
  /\ Succeeded
  /\ body.branch = <<"feat">>
  /\ parsed.branch = <<"dev">>
  /\ response.branch = <<"feat">>
  /\ \E q \in Range(netlog) : q.kind = "content" /\ q.ref = <<"feat">>

(***************************************************************************)
(* parseGitHubUrl on its own: one call on one locator.                     *)
(***************************************************************************)
\* Longest path, in segments, of a generated locator.
MaxSegs == 4

\* The segments of generated locators; the empty one makes a doubled slash.
ParseSegments == {<<"acme">>, <<"widgets">>, <<"tree">>, <<"dev">>, <<>>}
\* What comes before the path: nothing, a web address, one on another host,
\* one with another scheme and letter case, and a host without a scheme.
ParsePrefixes ==
  { <<>>,
    <<"https://", "github.com", "/">>,
    <<"https://", "gitlab.com", "/">>,
    <<"http://", "GitHub.com", "/">>,
    <<"github.com", "/">> }
ParseSuffixes == {<<>>, <<"/">>, <<".git">>}

RECURSIVE JoinSlash(_)
\* The segments with a "/" between each two.
JoinSlash(segs) ==
  IF segs = <<>> THEN <<>>
  ELSE IF Len(segs) = 1 THEN segs[1]
  ELSE segs[1] \o <<"/">> \o JoinSlash(Tail(segs))

\* The strings parseGitHubUrl is called on.
ParseInputs ==
  Locators \cup
  {pre \o JoinSlash(segs) \o suf :
     pre \in ParsePrefixes, segs \in SeqsUpTo(ParseSegments, MaxSegs),
     suf \in ParseSuffixes}

ParseInit ==
  /\ pc = "parse"
  /\ body \in [json : {TRUE}, repoUrl : ParseInputs, branch : {Undefined}]
  /\ parsed = Null
  /\ targetBranch = Undefined
  /\ treeData = <<>>
  /\ allFiles = <<>>
  /\ cursor = 1
  /\ filesToFetch = <<>>
  /\ totalSize = 0
  /\ i = 0
  /\ batchResults = <<>>
  /\ results = <<>>
  /\ outstanding = {}
  /\ netlog = <<>>
  /\ repoRes = NoRes
  /\ treeRes = NoRes
  /\ answers = <<>>
  /\ reordered = FALSE
  /\ response = NoResponse
  /\ ClientIdle

\* const parsed = parseGitHubUrl(repoUrl)
ParseStep ==
  /\ pc = "parse"
  /\ parsed' = parseGitHubUrl(body.repoUrl)
  /\ pc' = "parsed"
  /\ UNCHANGED <<body, targetBranch, treeData, allFiles, cursor, filesToFetch,
                 totalSize, i, batchResults, results, outstanding, netlog,
                 repoRes, treeRes, answers, reordered, response>>
  /\ UNCHANGED <<repoInputVars, pageVars>>

ParseNext == ParseStep

ParseSpec == ParseInit /\ [][ParseNext]_vars

\* Owner, repository and branch names as a user types them.
ParseNames ==
  {<<"octocat">>, <<"Hello-World">>, <<"acme">>, <<"widgets">>, <<"tree">>,
   <<"dev">>}
\* The three forms of a locator: owner/name, the web URL, the web URL of a
\* branch.
ShortForm(o, n) == o \o <<"/">> \o n
WebForm(o, n) == <<"https://", "github.com", "/">> \o ShortForm(o, n)
TreeForm(o, n, b) == WebForm(o, n) \o <<"/", "tree", "/">> \o b
\* The result names owner o, repository n and branch b.
Yields(p, o, n, b) ==
  /\ p # Null
  /\ p.owner = o
  /\ p.repo = n
  /\ p.branch = b
\* The string has tree as a path segment and b as a later one.
CarriesTree(url, b) ==
  \E k \in 1..Len(url) : \E m \in (k + 1)..Len(url) :
    url[k] = "tree" /\ <<url[m]>> = b

\* C12: parseGitHubUrl gives owner and name as typed (letter case kept) for
\* each of the three forms, a branch for the /tree/<branch> form, no branch
\* for the shorthand and the plain URL, and never a branch for a string
\* that has no tree segment followed by that branch.
C12_FormsAreExtracted ==
  pc = "parsed" =>
    LET url == body.repoUrl
    IN  /\ \A o \in ParseNames : \A n \in ParseNames :
              /\ url = ShortForm(o, n) => Yields(parsed, o, n, Undefined)
              /\ url = WebForm(o, n) => Yields(parsed, o, n, Undefined)
              /\ \A b \in ParseNames :
                   url = TreeForm(o, n, b) => Yields(parsed, o, n, b)
        /\ (parsed # Null /\ parsed.branch # Undefined)
             => CarriesTree(url, parsed.branch)
\* https://github.com/acme/widgets/tree/dev was parsed.
C12_Witness ==
  /\ pc = "parsed"
  /\ body.repoUrl = TreeForm(<<"acme">>, <<"widgets">>, <<"dev">>)
  /\ Yields(parsed, <<"acme">>, <<"widgets">>, <<"dev">>)

\* The string after trim, with one trailing .git and one trailing slash
\* dropped, as the parser reads it.
Cleaned(url) ==
  IF url = Undefined THEN Empty ELSE StripSlash(StripGit(Trim(url)))
\* A web address: it starts with a scheme.
IsWebUrl(c) == c # <<>> /\ Head(c) \in SchemeTokens
\* The host of a web address is github.com, in any letter case.
OnGitHub(c) == Len(c) >= 2 /\ toLowerCase(c[2]) = "github.com"
\* The names among the tokens: every token that is not a slash.
NamesOf(tokens) == SelectSeq(tokens, LAMBDA t : t # "/")

\* One of the three recognized forms, read generously: after cleaning, any
\* scheme and any letter case of the host.
RecognizedForm(url) ==
  LET c == Cleaned(url)
      names == IF IsWebUrl(c) THEN NamesOf(SubSeq(c, 3, Len(c)))
               ELSE NamesOf(c)
      Named(n) == n \in WordTokens
  IN  \/ /\ ~IsWebUrl(c)
         /\ Len(c) = 3 /\ Named(c[1]) /\ c[2] = "/" /\ Named(c[3])
      \/ /\ IsWebUrl(c) /\ OnGitHub(c)
         /\ Len(c) = 6 /\ c[3] = "/" /\ Named(c[4]) /\ c[5] = "/" /\ Named(c[6])
      \/ /\ IsWebUrl(c) /\ OnGitHub(c)
         /\ Len(c) = 10 /\ c[3] = "/" /\ Named(c[4]) /\ c[5] = "/"
         /\ Named(c[6]) /\ c[7] = "/" /\ c[8] = "tree" /\ c[9] = "/"
         /\ Named(c[10])

Accepted(url) ==
  LET c == Cleaned(url)
  IN  IF IsWebUrl(c)
        THEN /\ OnGitHub(c)
             /\ Len(NamesOf(SubSeq(c, 3, Len(c)))) >= 2
             /\ \A k \in 3..Len(c) : c[k] = "/" \/ c[k] \in WordTokens
        ELSE /\ Len(c) = 3
             /\ c[1] \in WordTokens /\ c[2] = "/" /\ c[3] \in WordTokens

MaxDirs == 2

ClassDirs == {Name("src"), Name("lib"), Name("node_modules"), DotName("git")}
ClassFileNames ==
  { <<"a", "py">>, <<"x", "PY">>, <<"stats", "R">>, <<"c", "js">>,
    <<"app", "config", "json">>, <<"app", "cfg">>, <<"prod", "dockerfile">>,
    <<"notes", "txt">>, <<"archive", "tar", "gz">>, <<"", "gitignore">>,
    <<"foo", "">>, Name("README"), Name("go"), Name("Dockerfile"),
    Name("Makefile"), <<"package-lock", "json">>, <<"yarn", "lock">> }
\* The paths shouldIncludeFile is called on.
ClassPaths ==
  {Append(dirs, f) : dirs \in SeqsUpTo(ClassDirs, MaxDirs), f \in ClassFileNames}

ClassifyInit ==
  /\ pc = "classify"
  /\ treeData \in {<<Entry(p, 1, "blob")>> : p \in ClassPaths}
  /\ body = [json |-> TRUE, repoUrl |-> <<"octocat", "/", "Hello-World">>,
             branch |-> Undefined]
  /\ parsed = Parsed(<<"octocat">>, <<"Hello-World">>, Undefined)
  /\ targetBranch = <<"main">>
  /\ allFiles = <<>>
  /\ cursor = 1
  /\ filesToFetch = <<>>
  /\ totalSize = 0
  /\ i = 0
  /\ batchResults = <<>>
  /\ results = <<>>
  /\ outstanding = {}
  /\ netlog = <<>>
  /\ repoRes = NoRes
  /\ treeRes = NoRes
  /\ answers = <<>>
  /\ reordered = FALSE
  /\ response = NoResponse
  /\ ClientIdle

\* const allFiles = (treeData.tree || []).filter(...), then the sort
ClassifyStep ==
  /\ pc = "classify"
  /\ allFiles' = SortBySize(Eligible(treeData))
  /\ pc' = "classified"
  /\ UNCHANGED <<body, parsed, targetBranch, treeData, cursor, filesToFetch,
                 totalSize, i, batchResults, results, outstanding, netlog,
                 repoRes, treeRes, answers, reordered, response>>
  /\ UNCHANGED <<repoInputVars, pageVars>>

ClassifyNext == ClassifyStep

ClassifySpec == ClassifyInit /\ [][ClassifyNext]_vars

\* The path that was classified and its verdict.
Classified == pc = "classified"
ClassPath == treeData[1].path
IsEligible == allFiles # <<>>
\* Some segment before the last is an excluded directory.
UnderSkipDir(path) == \E k \in 1..(Len(path) - 1) : path[k] \in SKIP_DIRS
SpecialName(fileName) ==
  fileName = Name("Dockerfile") \/ fileName = Name("Makefile")

\* C14: a path with an excluded directory among its segments before the
\* last is never eligible, however deep the directory is and whatever the
\* file is.
C14_SkipDirExcludes ==
  (Classified /\ UnderSkipDir(ClassPath)) => ~IsEligible
\* A Python file two levels below node_modules was classified.
C14_Witness ==
  /\ Classified
  /\ ClassPath = <<Name("node_modules"), Name("src"), <<"a", "py">> >>
  /\ ~IsEligible

\* C15 as stated: a path outside every excluded directory whose final
\* segment is exactly Dockerfile or Makefile is eligible.
C15_SpecialNamesEligible ==
  (Classified /\ ~UnderSkipDir(ClassPath) /\ SpecialName(Last(ClassPath)))
    => IsEligible

\* The final segment has a dot and the part after its last dot, lower-cased,
\* is on the allow-list.
AllowedExt(fileName) ==
  /\ Len(fileName) >= 2
  /\ <<".", toLowerCase(Last(fileName))>> \in CODE_EXTENSIONS

\* C16: an eligible path has no excluded directory before its last segment,
\* a last segment that is no lock file, and an allow-listed extension or a
\* special name; a last segment without a dot that is no special name is
\* never eligible.
C16_EligibleImplies ==
  Classified =>
    /\ IsEligible =>
         /\ ~UnderSkipDir(ClassPath)
         /\ Last(ClassPath) \notin SKIP_FILES
         /\ AllowedExt(Last(ClassPath)) \/ SpecialName(Last(ClassPath))
    /\ (Len(Last(ClassPath)) = 1 /\ ~SpecialName(Last(ClassPath)))
         => ~IsEligible
\* src/x.PY was found eligible.
C16_Witness ==
  /\ Classified
  /\ ClassPath = <<Name("src"), <<"x", "PY">> >>
  /\ IsEligible

(***************************************************************************)
(* The selection as a function of the eligible files.                      *)
(***************************************************************************)
RECURSIVE Walk(_, _, _, _)
\* The walk of lines 228-236 from candidate k on, run to its end.
Walk(files, k, chosen, total) ==
  IF k > Len(files) \/ Len(chosen) >= MAX_FILES THEN chosen
  ELSE LET size == SizeOr0(files[k].size)
       IN  IF size > MAX_FILE_SIZE THEN Walk(files, k + 1, chosen, total)
           ELSE IF total + size > MAX_TOTAL_SIZE THEN chosen
           ELSE Walk(files, k + 1, Append(chosen, files[k]), total + size)
\* The files selected from a sequence of eligible files in listing order.
SelectionOf(eligible) == Walk(SortBySize(eligible), 1, <<>>, 0)

\* The selection walk has ended and no batch is in flight.
Selected == pc = "fetch" \/ Succeeded

\* C17: the selected files are a function of the sequence of eligible
\* files alone: whatever the request, the branch, the metadata answer and
\* the order of the steps, runs on the same eligible sequence select the
\* same files in the same order.
C17_SelectionIsFunctionOfEligible ==
  Selected => filesToFetch = SelectionOf(Eligible(treeData))
\* The walk has ended on a listing that the budgets cut.
C17_Witness ==
  /\ pc = "fetch"
  /\ filesToFetch # <<>>
  /\ Len(filesToFetch) < Len(Eligible(treeData))
  /\ filesToFetch = SelectionOf(Eligible(treeData))

(***************************************************************************)
(* The order of the candidates.                                            *)
(***************************************************************************)
\* The position of a path in the listing (paths of a listing are distinct).
ListingPos(path) == CHOOSE k \in 1..Len(treeData) : treeData[k].path = path
\* Sizes never decrease along files, and of two neighbours of one size the
\* first is listed first.
AscendingStable(files) ==
  \A k \in 1..(Len(files) - 1) :
    LET a == files[k]
        b == files[k + 1]
    IN  /\ SizeOr0(a.size) <= SizeOr0(b.size)
        /\ SizeOr0(a.size) = SizeOr0(b.size)
             => ListingPos(a.path) < ListingPos(b.path)

\* C20: while the candidates are walked and when the walk has ended, the
\* candidates are in non-decreasing order of size with equal sizes in
\* listing order, the walk has taken its files from the candidates before
\* the cursor, and the selected files are in that same order.
C20_WalkAscendingStable ==
  pc \in {"select", "fetch"} =>
    /\ AscendingStable(allFiles)
    /\ AscendingStable(filesToFetch)
    /\ Range(filesToFetch) \subseteq {allFiles[k] : k \in 1..(cursor - 1)}
\* e.sql is listed before a.py, both of 50 bytes, and both were selected.
C20_Witness ==
  /\ pc = "fetch"
  /\ Len(filesToFetch) = 2
  /\ filesToFetch[1].path = << <<"e", "sql">> >>
  /\ filesToFetch[2].path = << <<"a", "py">> >>
  /\ filesToFetch[1].size = filesToFetch[2].size

(***************************************************************************)
(* The content normaliser: the fetch stage on a selection of one file.     *)
(***************************************************************************)
\* The state after the selection walk of a run on octocat/Hello-World with
\* the branch feat requested, whose listing holds one eligible file.
NormInit ==
  /\ pc = "fetch"
  /\ body = [json |-> TRUE, repoUrl |-> <<"octocat", "/", "Hello-World">>,
             branch |-> <<"feat">>]
  /\ parsed = Parsed(<<"octocat">>, <<"Hello-World">>, Undefined)
  /\ targetBranch = <<"feat">>
  /\ treeData \in {<<f>> : f \in NormFiles}
  /\ allFiles = treeData
  /\ cursor = 2
  /\ filesToFetch = treeData
  /\ totalSize = SizeOr0(treeData[1].size)
  /\ i = 0
  /\ batchResults = <<>>
  /\ results = <<>>
  /\ outstanding = {}
  /\ netlog = <<TreeRequest>>
  /\ repoRes = NoRes
  /\ treeRes = [kind |-> "ok"]
  /\ answers = <<>>
  /\ reordered = FALSE
  /\ response = NoResponse
  /\ ClientIdle

NormNext ==
  \/ StartBatch
  \/ ContentResponds
  \/ JoinBatch
  \/ Respond

NormSpec == NormInit /\ [][NormNext]_vars

\* The content request of the one file was answered with the file itself.
FileServed == 1 \in DOMAIN answers /\ "bytes" \in DOMAIN answers[1]
\* The text of a byte string: a byte that is no UTF-8 reads as U+FFFD.
TextOf(bytes) ==
  [k \in 1..Len(bytes) |-> IF bytes[k] \in 0..127 THEN bytes[k] ELSE 65533]
HasNul(bytes) == \E k \in 1..Len(bytes) : bytes[k] = 0

\* C18: the record of a file that was served in base64 and whose text has
\* no null byte carries the whole text of the file, byte for byte through
\* the base64 lines, and the path of the selected file.
C18_ContentIsDecodedText ==
  (Succeeded /\ FileServed /\ ~HasNul(answers[1].bytes)
     /\ response.files # <<>>)
    => /\ response.files[1].content = TextOf(answers[1].bytes)
       /\ response.files[1].path = filesToFetch[1].path
\* docs/guide.md, four bytes on two base64 lines, one of them no UTF-8.
C18_Witness ==
  /\ Succeeded
  /\ FileServed
  /\ answers[1].bytes = <<104, 105, 200, 105>>
  /\ filesToFetch[1].path = << <<"docs">>, <<"guide", "md">> >>
  /\ Len(response.files) = 1
  /\ response.files[1].content = <<104, 105, 65533, 105>>

\* The label of each file of NormFiles in the language table.
NormLabel(path) ==
  CASE Last(path) = <<"guide", "md">> -> "Markdown"
    [] Last(path) = <<"stats", "R">> -> "R"
    [] Last(path) = <<"main", "py">> -> "Python"
    [] OTHER -> "Unknown"

\* C19 as stated: every served file whose text has no null byte, the empty
\* file included, yields a record, labelled with its language or Unknown.
C19_EveryTextYieldsRecord ==
  (Succeeded /\ FileServed /\ ~HasNul(answers[1].bytes))
    => /\ Len(response.files) = 1
       /\ response.files[1].language = NormLabel(filesToFetch[1].path)

(***************************************************************************)
(* Where the selection walk stops.                                         *)
(***************************************************************************)
\* The walk has just ended: no batch was started yet.
WalkEnded == pc = "fetch" /\ i = 0 /\ netlog # <<>> /\ Last(netlog).kind = "tree"
Oversize(file) == SizeOr0(file.size) > MAX_FILE_SIZE
\* The candidates before position k that fit the per-file budget.
FittingBefore(k) == SelectSeq(SubSeq(allFiles, 1, k - 1), LAMBDA f : ~Oversize(f))
\* At candidate k the count budget is used up, or k would overrun the total.
StopsAt(k) ==
  \/ Len(FittingBefore(k)) >= MAX_FILES
  \/ /\ ~Oversize(allFiles[k])
     /\ SumSizes(FittingBefore(k)) + SizeOr0(allFiles[k].size) > MAX_TOTAL_SIZE

\* C21: when the walk has ended, it stands on the first candidate at which
\* the count budget is used up or whose admission would overrun the total
\* budget, or it has passed every candidate; every candidate before that
\* point was admitted unless it is over the per-file budget, in which case
\* it was passed over, and no candidate from that point on was admitted.
C21_WalkStopsAtFirstOverrun ==
  WalkEnded =>
    /\ cursor <= Len(allFiles) => StopsAt(cursor)
    /\ \A k \in 1..(cursor - 1) : ~StopsAt(k)
    /\ filesToFetch = FittingBefore(cursor)
\* a.py of 50 bytes and four files of 100000 bytes were admitted, the walk
\* stands on the fifth, which would bring the total to 500050.
C21_Witness ==
  /\ WalkEnded
  /\ cursor = 6
  /\ Len(allFiles) = 6
  /\ filesToFetch[1].path = << <<"a", "py">> >>
  /\ Len(filesToFetch) = 5
  /\ totalSize + SizeOr0(allFiles[cursor].size) > MAX_TOTAL_SIZE

(***************************************************************************)
(* The discovery requests.                                                 *)
(***************************************************************************)
\* How many requests of a kind were issued.
Issued(kind) == Cardinality({k \in DOMAIN netlog : netlog[k].kind = kind})
\* The body or the URL names a branch.
BranchSupplied ==
  Truthy(body.branch) \/ (parsed # Null /\ Truthy(parsed.branch))
\* The run has passed the validation of its locator.
Validated == body.json /\ ~BadLocator /\ pc \notin {"start", "validate"}

\* C22: the metadata request is issued at most once, and in a validated run
\* exactly when neither the body nor the URL names a branch; the tree
\* request is issued at most once, only when no metadata request is
\* outstanding and, if one was made, after it was answered ok, and exactly
\* once in every run that got past validation and branch resolution.
C22_DiscoveryRequests ==
  /\ Issued("meta") <= 1
  /\ Issued("tree") <= 1
  /\ Issued("meta") = 1 => (Validated /\ ~BranchSupplied)
  /\ (Validated /\ ~BranchSupplied /\ pc # "resolve") => Issued("meta") = 1
  /\ Issued("tree") = 1 =>
       /\ MetaRequest \notin outstanding
       /\ Issued("meta") = 1 =>
            (netlog[1] = MetaRequest /\ repoRes.kind = "ok")
  /\ (Validated /\ pc \notin {"resolve", "awaitMeta", "tree"}
        /\ ~FetchFailed(repoRes))
       => Issued("tree") = 1
\* A run without a branch has asked for the metadata, then for the tree,
\* and has answered.
C22_Witness ==
  /\ Succeeded
  /\ ~BranchSupplied
  /\ Issued("meta") = 1
  /\ Issued("tree") = 1
  /\ netlog[1] = MetaRequest
  /\ netlog[2].kind = "tree"

(***************************************************************************)
(* No request is repeated.                                                 *)
(***************************************************************************)
ContentIssued == {q \in Range(netlog) : q.kind = "content"}

\* C23: no request is issued twice; each content request is for a selected
\* file, at most one per selected file, and exactly one per selected file
\* when the run has answered, whether the fetch gave a record or not; a run
\* issues at most 2 + MAX_FILES requests.
C23_NoRequestRepeated ==
  /\ Cardinality(Range(netlog)) = Len(netlog)
  /\ \A q \in ContentIssued :
       /\ q.idx \in 1..Len(filesToFetch)
       /\ q.path = filesToFetch[q.idx].path
  /\ Cardinality({q.path : q \in ContentIssued}) = Issued("content")
  /\ Succeeded => Issued("content") = Len(filesToFetch)
  /\ Len(netlog) <= 2 + MAX_FILES
\* A run has asked for the metadata, the tree and the content of 50
\* selected files, some of which were not found, and has answered.
C23_Witness ==
  /\ Succeeded
  /\ Len(netlog) = 2 + MAX_FILES
  /\ Len(results) < Len(filesToFetch)
  /\ \E k \in DOMAIN answers : answers[k] = Status(404)

(***************************************************************************)
(* Binary content.                                                         *)
(***************************************************************************)
\* The selected files whose content was fetched and holds a null byte.
BinaryFiles == {k \in DOMAIN answers : Binary(answers[k])}
\* Slot n of the batch in flight holds what the answer of its own file
\* asks for, whatever the other files of the batch were answered.
SlotFollowsOwnAnswer(n) ==
  LET k == i + n
  IN  IF k \notin DOMAIN answers THEN batchResults[n] = Pending
      ELSE IF GoodText(answers[k])
        THEN /\ batchResults[n] \notin {Pending, NullFile, Thrown}
             /\ batchResults[n].path = filesToFetch[k].path
      ELSE batchResults[n] = NullFile

\* C24: a file fetched ok whose text holds a null byte gets no record; the
\* run still ends in success; and the other files of its batch keep the
\* result of their own answer, a file answered with text getting its
\* record.
C24_BinaryIsDropped ==
  /\ \A k \in BinaryFiles : filesToFetch[k].path \notin PathsOf(results)
  /\ pc = "awaitBatch" =>
       \A n \in DOMAIN batchResults : SlotFollowsOwnAnswer(n)
  /\ (Done /\ BinaryFiles # {}) =>
       /\ response.success
       /\ \A k \in BinaryFiles :
            filesToFetch[k].path \notin PathsOf(response.files)
       /\ \A m \in DOMAIN answers :
            GoodText(answers[m]) =>
              filesToFetch[m].path \in PathsOf(response.files)
\* A run has answered with the record of a text file whose batch also held
\* a binary file.
C24_Witness ==
  /\ Succeeded
  /\ \E k \in BinaryFiles : \E m \in DOMAIN answers :
       /\ BatchNo(k) = BatchNo(m)
       /\ GoodText(answers[m])
       /\ filesToFetch[m].path \in PathsOf(response.files)
       /\ filesToFetch[k].path \notin PathsOf(response.files)

(***************************************************************************)
(* The selection is a maximal prefix.                                      *)
(***************************************************************************)
\* Largest listing whose subsets are all tried.
MaxSubsetOf == 6

\* The positions S of allFiles are a set of files within the three budgets.
Feasible(S) ==
  /\ Cardinality(S) <= MAX_FILES
  /\ \A k \in S : ~Oversize(allFiles[k])
  /\ SumSizes([k \in 1..Len(allFiles) |->
                 IF k \in S THEN allFiles[k] ELSE [size |-> 0]])
       <= MAX_TOTAL_SIZE

\* C25: when the walk has ended the selected files are the first files of
\* the candidates in size order; each candidate left out would break the
\* count budget, the per-file budget or the total budget if it were added;
\* and no set of candidates within the budgets has more members.
C25_SelectionIsMaximalPrefix ==
  WalkEnded =>
    /\ Len(filesToFetch) <= Len(allFiles)
    /\ filesToFetch = SubSeq(allFiles, 1, Len(filesToFetch))
    /\ \A k \in (Len(filesToFetch) + 1)..Len(allFiles) :
         \/ Len(filesToFetch) + 1 > MAX_FILES
         \/ Oversize(allFiles[k])
         \/ totalSize + SizeOr0(allFiles[k].size) > MAX_TOTAL_SIZE
    /\ Len(allFiles) <= MaxSubsetOf =>
         \A S \in SUBSET (1..Len(allFiles)) :
           Feasible(S) => Cardinality(S) <= Len(filesToFetch)
\* Five files of 100000 bytes fill the total budget exactly and a sixth is
\* left out.
C25_Witness ==
  /\ WalkEnded
  /\ Len(allFiles) = 6
  /\ Len(filesToFetch) = 5
  /\ totalSize = MAX_TOTAL_SIZE

(***************************************************************************)
(* The counts of the successful response.                                  *)
(***************************************************************************)
\* C26: in a successful response files holds records of selected files in
\* selected order, none twice; fetchedFiles is their number, which is at
\* most the number of selected files, which is at most MAX_FILES;
\* totalFiles is the number of eligible files of the listing; fetchedFiles
\* and truncatedFiles add up to totalFiles, so truncatedFiles is at least
\* the number of eligible files left unselected.
C26_CountsConsistent ==
  Succeeded =>
    /\ InSelectedOrder(response.files)
    /\ Cardinality(PathsOf(response.files)) = Len(response.files)
    /\ response.fetchedFiles = Len(response.files)
    /\ Len(response.files) <= Len(filesToFetch)
    /\ Len(filesToFetch) <= MAX_FILES
    /\ response.totalFiles = Len(Eligible(treeData))
    /\ response.fetchedFiles + response.truncatedFiles = response.totalFiles
    /\ response.truncatedFiles >= Len(Eligible(treeData)) - Len(filesToFetch)
\* 52 eligible files, 50 selected, fewer records than selected files.
C26_Witness ==
  /\ Succeeded
  /\ response.totalFiles = MAX_FILES + 2
  /\ Len(filesToFetch) = MAX_FILES
  /\ response.fetchedFiles < MAX_FILES
  /\ response.fetchedFiles > 0
  /\ response.truncatedFiles > 2

(***************************************************************************)
(* RepoInput: the component that fetches a repository and lets the user    *)
(* choose among its files.                                                 *)
(***************************************************************************)
\* Most records in one answer of /api/github to the component.
MaxFetched == 2

routeVars ==
  <<pc, body, parsed, targetBranch, treeData, allFiles, cursor, filesToFetch,
    totalSize, i, batchResults, results, outstanding, netlog, repoRes,
    treeRes, answers, reordered, response>>
\* No request is being handled by the route.
RouteIdle ==
  /\ pc = "start"
  /\ body = [json |-> FALSE, repoUrl |-> Undefined, branch |-> Undefined]
  /\ parsed = Null
  /\ targetBranch = Undefined
  /\ treeData = <<>>
  /\ allFiles = <<>>
  /\ cursor = 1
  /\ filesToFetch = <<>>
  /\ totalSize = 0
  /\ i = 0
  /\ batchResults = <<>>
  /\ results = <<>>
  /\ outstanding = {}
  /\ netlog = <<>>
  /\ repoRes = NoRes
  /\ treeRes = NoRes
  /\ answers = <<>>
  /\ reordered = FALSE
  /\ response = NoResponse

\* What the user may type in the URL field: nothing, blanks, a locator.
RepoUrls == {Empty, <<" ">>, <<"octocat", "/", "Hello-World">>}
\* The records the route may send.
ClientFilePool ==
  { FileRecord(<< <<"a", "py">> >>, <<104, 105>>, 50, "Python"),
    FileRecord(<< <<"d", "md">> >>, <<104, 105>>, 5000, "Markdown"),
    FileRecord(<< <<"src">>, <<"e", "sql">> >>, <<104, 105>>, 50, "SQL") }
\* An eligible file that was not fetched.
Unfetched == Entry(<< <<"big", "ts">> >>, MAX_FILE_SIZE + 1, "blob")
\* The JSON bodies /api/github may answer with: the successes of the route,
\* a success without files and tree, and failures with and without message.
ApiAnswers ==
  {Success(Parsed(<<"octocat">>, <<"Hello-World">>, Undefined), <<"main">>,
           files, Append(files, Unfetched)) :
     files \in SeqsNoRepeat(ClientFilePool, MaxFetched)}
  \cup {[success |-> TRUE, owner |-> <<"octocat">>, repo |-> <<"Hello-World">>,
         branch |-> <<"main">>]}
  \cup {Failure(404, "Repository not found"), [success |-> FALSE]}

\* What fetch or res.json() may throw: an Error with its message, or a
\* value that is no Error.
FetchThrown ==
  {[isError |-> TRUE, message |-> "Failed to fetch"], [isError |-> FALSE]}

\* Array.isArray(x) ? x : [] for field f of the answer
ArrayOr(data, f) == IF f \in DOMAIN data THEN data[f] ELSE <<>>

\* onChange of the URL field
SetRepoUrl ==
  /\ \E u \in RepoUrls : repoUrl' = u
  /\ UNCHANGED <<fetching, fetchError, fetchedFiles, repoInfo, selectedPaths,
                 treeItems, totalInRepo, submitted>>
  /\ UNCHANGED <<routeVars, pageVars>>

\* Mutant: the data of the earlier fetch is not reset when a fetch starts.
HandleFetch_KeepsData ==
  /\ ~fetching
  /\ IF Trim(repoUrl) = Empty
       THEN UNCHANGED <<fetching, fetchError>>
       ELSE /\ fetching' = TRUE
            /\ fetchError' = NoString
  /\ UNCHANGED <<fetchedFiles, selectedPaths, treeItems, repoInfo>>
  /\ UNCHANGED <<repoUrl, totalInRepo, submitted>>
  /\ UNCHANGED <<routeVars, pageVars>>

\* handleFetch up to its await; the button and the Enter key start it only
\* when no fetch is in flight.
HandleFetch ==
  /\ ~fetching
  /\ IF Trim(repoUrl) = Empty
       THEN UNCHANGED <<fetching, fetchError, fetchedFiles, selectedPaths,
                        treeItems, repoInfo>>
       ELSE /\ fetching' = TRUE
            /\ fetchError' = NoString
            /\ fetchedFiles' = <<>>
            /\ selectedPaths' = {}
            /\ treeItems' = <<>>
            /\ repoInfo' = Null
  /\ UNCHANGED <<repoUrl, totalInRepo, submitted>>
  /\ UNCHANGED <<routeVars, pageVars>>

\* handleFetch from its await on: the answer, or a thrown error.
FetchResponds ==
  /\ fetching
  /\ \E data \in ApiAnswers \cup FetchThrown :
       IF data \in FetchThrown
         THEN /\ fetchError' = IF data.isError THEN data.message
                               ELSE "Network error fetching repository"
              /\ UNCHANGED <<fetchedFiles, repoInfo, treeItems, totalInRepo,
                             selectedPaths>>
       ELSE IF ~data.success
         THEN /\ fetchError' = IF "error" \in DOMAIN data THEN data.error
                               ELSE "Failed to fetch repository"
              /\ UNCHANGED <<fetchedFiles, repoInfo, treeItems, totalInRepo,
                             selectedPaths>>
       ELSE LET files == ArrayOr(data, "files")
            IN  /\ fetchedFiles' = files
                /\ repoInfo' = [owner |-> data.owner, repo |-> data.repo,
                                branch |-> data.branch]
                /\ treeItems' = ArrayOr(data, "tree")
                /\ totalInRepo' =
                     IF "totalFiles" \in DOMAIN data /\ data.totalFiles # 0
                       THEN data.totalFiles ELSE Len(files)
                /\ selectedPaths' = PathsOf(files)
                /\ UNCHANGED fetchError
  /\ fetching' = FALSE
  /\ UNCHANGED <<repoUrl, submitted>>
  /\ UNCHANGED <<routeVars, pageVars>>

\* The file list is rendered: hasFetchedRepo && repoInfo
ListShown == fetchedFiles # <<>> /\ repoInfo # Null

\* The selection with the path p put in when it was out, and out when in.
Toggled(selection, p) ==
  IF p \in selection THEN selection \ {p} ELSE selection \cup {p}

\* handleToggleFile, called by the checkbox of a listed file
HandleToggleFile ==
  /\ ListShown
  /\ \E p \in PathsOf(fetchedFiles) : selectedPaths' = Toggled(selectedPaths, p)
  /\ UNCHANGED <<repoUrl, fetching, fetchError, fetchedFiles, repoInfo,
                 treeItems, totalInRepo, submitted>>
  /\ UNCHANGED <<routeVars, pageVars>>

HandleSelectAll ==
  /\ ListShown
  /\ selectedPaths' = PathsOf(fetchedFiles)
  /\ UNCHANGED <<repoUrl, fetching, fetchError, fetchedFiles, repoInfo,
                 treeItems, totalInRepo, submitted>>
  /\ UNCHANGED <<routeVars, pageVars>>

HandleDeselectAll ==
  /\ ListShown
  /\ selectedPaths' = {}
  /\ UNCHANGED <<repoUrl, fetching, fetchError, fetchedFiles, repoInfo,
                 treeItems, totalInRepo, submitted>>
  /\ UNCHANGED <<routeVars, pageVars>>

\* Mutant: every fetched file is handed over, selected or not.
SelectedFiles_All(files, selection) == files

\* fetchedFiles.filter(f => selectedPaths.has(f.path))
SelectedFiles(files, selection) ==
  SelectSeq(files, LAMBDA f : f.path \in selection)

\* The last call of onSubmitRepo.
SubmitCall(files, info) == [files |-> files, repoInfo |-> info]

\* handleSubmit of the component, whenever it is called
HandleSubmit ==
  /\ IF repoInfo = Null \/ selectedPaths = {}
       THEN UNCHANGED submitted
       ELSE submitted' =
              SubmitCall(SelectedFiles(fetchedFiles, selectedPaths), repoInfo)
  /\ UNCHANGED <<repoUrl, fetching, fetchError, fetchedFiles, repoInfo,
                 selectedPaths, treeItems, totalInRepo>>
  /\ UNCHANGED <<routeVars, pageVars>>

RepoInputNext ==
  \/ SetRepoUrl
  \/ HandleFetch
  \/ FetchResponds
  \/ HandleToggleFile
  \/ HandleSelectAll
  \/ HandleDeselectAll
  \/ HandleSubmit

\* The components are mounted and the route handles no request.
ClientInit ==
  /\ RouteIdle
  /\ ClientIdle

RepoInputSpec == ClientInit /\ [][RepoInputNext]_vars
\* The request to /api/github is answered or fails: the await returns.
RepoInputFairSpec == RepoInputSpec /\ WF_vars(FetchResponds)

\* The position of a path among the fetched files.
FetchedPos(path) ==
  CHOOSE k \in 1..Len(fetchedFiles) : fetchedFiles[k].path = path
\* files are fetched files, none twice, in the order they were fetched in.
InFetchedOrder(files) ==
  /\ Range(files) \subseteq Range(fetchedFiles)
  /\ \A k \in 1..(Len(files) - 1) :
       FetchedPos(files[k].path) < FetchedPos(files[k + 1].path)

\* C27: the selected paths are always paths of fetched files; toggling a
\* listed path twice gives the selection back; a step hands files to
\* onSubmitRepo only when the repository info is set and the selection is
\* not empty, and then exactly the fetched files whose paths are selected,
\* in fetched order, with the repository info.
C27_SelectionWithinFetched ==
  /\ [](/\ selectedPaths \subseteq PathsOf(fetchedFiles)
        /\ \A p \in PathsOf(fetchedFiles) :
             Toggled(Toggled(selectedPaths, p), p) = selectedPaths)
  /\ [][/\ (repoInfo = Null \/ selectedPaths = {}) => submitted' = submitted
        /\ submitted' # submitted =>
             /\ submitted'.repoInfo = repoInfo
             /\ PathsOf(submitted'.files) = selectedPaths
             /\ InFetchedOrder(submitted'.files)]_vars
\* Of two fetched files one was deselected and the other handed over.
C27_Witness ==
  /\ Len(fetchedFiles) = 2
  /\ Cardinality(selectedPaths) = 1
  /\ submitted # Null
  /\ PathsOf(submitted.files) = selectedPaths

\* The data of a fetch: files, selection, tree and repository info.
NoFetchData ==
  /\ fetchedFiles = <<>>
  /\ selectedPaths = {}
  /\ treeItems = <<>>
  /\ repoInfo = Null

\* C28: whenever the error message is set, after an answer with success
\* false or a thrown error, no files, selection, tree or repository info
\* are held, those of an earlier fetch included; and a fetch in flight
\* always comes to its end with fetching false, whatever the outcome.
C28_FailedFetchLeavesNothing ==
  /\ [](fetchError # NoString => (NoFetchData /\ ~fetching))
  /\ fetching ~> ~fetching
\* A fetch has failed after an earlier one had succeeded.
C28_Witness ==
  /\ fetchError # NoString
  /\ ~fetching
  /\ totalInRepo > 0
  /\ NoFetchData


(***************************************************************************)
(* Page: the component that sends the pasted code or the chosen files to   *)
(* the review agent and stores the review.                                 *)
(***************************************************************************)
\* Most submissions started in one run.
MaxCalls == 2

AGENT_ID == "69a1f10fa9ff34dc03db5b46"

\* What the code field may hold: nothing, blanks, some code.
Codes == {Empty, <<" ">>, <<"x", " ", "=", " ", "1">>}
\* The repository RepoInput hands over with the files.
SubmittedRepo ==
  [owner |-> <<"octocat">>, repo |-> <<"Hello-World">>, branch |-> <<"main">>]
\* The file lists handleRepoSubmit may be called with.
RepoSubmissions ==
  { <<>>,
    << FileRecord(<< <<"a", "py">> >>, <<104, 105>>, 50, "Python") >>,
    << FileRecord(<< <<"a", "py">> >>, <<104, 105>>, 50, "Python"),
       FileRecord(<< <<"d", "md">> >>, <<104, 105>>, 5000, "Markdown") >> }
\* `Analyzing ${files.length} files from ${owner}/${repo}...`
AnalyzingFiles(n) ==
  IF n = 1 THEN "Analyzing 1 files from octocat/Hello-World..."
  ELSE "Analyzing 2 files from octocat/Hello-World..."

\* Two reviews the agent may give.
ReviewA == [summary |-> <<"sound">>, overall_score |-> 90]
ReviewB == [summary |-> <<"fragile">>, overall_score |-> 20]
\* A value of the agent's answer with its typeof.
JsString(text) == [typeof |-> "string", value |-> text]
JsObject(v) == [typeof |-> "object", value |-> v]
JsUndefined == [typeof |-> "undefined"]
\* The JSON text of a value, and its reading back; a text that is no JSON
\* makes JSON.parse throw.
JsonStringify(v) == <<"JSON", v>>
IsJson(text) == Len(text) = 2 /\ text[1] = "JSON"
JsonParse(text) == text[2]

\* What callAIAgent may resolve to: a review as an object, a review as JSON
\* text, a text that is no JSON, the JSON text of null, a success without a
\* response, a failure with a message and one without.
AgentResults ==
  { [success |-> TRUE, response |-> [result |-> JsObject(ReviewA)]],
    [success |-> TRUE, response |-> [result |-> JsString(JsonStringify(ReviewB))]],
    [success |-> TRUE, response |-> [result |-> JsString(<<"looks", " ", "fine">>)]],
    [success |-> TRUE, response |-> [result |-> JsString(JsonStringify(Null))]],
    [success |-> TRUE],
    [success |-> FALSE, error |-> "Agent failed"],
    [success |-> FALSE] }
\* What the call may throw: an Error with its message, or a value that is
\* no Error.
AgentThrown ==
  {[isError |-> TRUE, message |-> "Agent unreachable"], [isError |-> FALSE]}

\* The review stored for a text that is no JSON.
FallbackReview(text) == [summary |-> text, overall_score |-> 0]

\* parseAgentResult; null and undefined are both Null, the falsy result.
parseAgentResult(result) ==
  IF ~result.success THEN Null
  ELSE LET raw == IF "response" \in DOMAIN result
                    THEN result.response.result ELSE JsUndefined
       IN  IF raw.typeof = "string"
             THEN IF IsJson(raw.value) THEN JsonParse(raw.value)
                  ELSE FallbackReview(raw.value)
           ELSE IF raw.typeof = "undefined" THEN Null
           ELSE raw.value

\* onChange of the code field
SetCode ==
  /\ \E c \in Codes : code' = c
  /\ UNCHANGED <<loading, error, reviewResult, activeAgentId, repoContext,
                 loadingMessage, calls, started, settled>>
  /\ UNCHANGED <<routeVars, repoInputVars>>

\* The call of callAIAgent a submission makes: what it was asked, the
\* stored review when the submission began, and whether another submission
\* ran while it did.
NewCall(kind, text, files) ==
  [id |-> started + 1, kind |-> kind, code |-> text, files |-> files,
   before |-> reviewResult, overlapped |-> calls # {}]
Launch(call) ==
  /\ calls' = {[c EXCEPT !.overlapped = TRUE] : c \in calls} \cup {call}
  /\ started' = started + 1

\* Mutant: blank code is submitted like any other.
HandleSubmitStart_NoBlankTest ==
  /\ started < MaxCalls
  /\ loading' = TRUE
  /\ error' = NoString
  /\ activeAgentId' = AGENT_ID
  /\ loadingMessage' = "Analyzing your code..."
  /\ repoContext' = Null
  /\ Launch(NewCall("paste", code, <<>>))
  /\ UNCHANGED <<code, reviewResult, settled>>
  /\ UNCHANGED <<routeVars, repoInputVars>>

\* handleSubmit up to its await
HandleSubmitStart ==
  /\ IF Trim(code) = Empty
       THEN UNCHANGED <<loading, error, activeAgentId, loadingMessage,
                        repoContext, calls, started>>
       ELSE /\ started < MaxCalls
            /\ loading' = TRUE
            /\ error' = NoString
            /\ activeAgentId' = AGENT_ID
            /\ loadingMessage' = "Analyzing your code..."
            /\ repoContext' = Null
            /\ Launch(NewCall("paste", code, <<>>))
  /\ UNCHANGED <<code, reviewResult, settled>>
  /\ UNCHANGED <<routeVars, repoInputVars>>

\* handleRepoSubmit up to its await
HandleRepoSubmitStart ==
  /\ \E files \in RepoSubmissions :
       IF Len(files) = 0
         THEN UNCHANGED <<loading, error, activeAgentId, loadingMessage,
                          repoContext, calls, started>>
         ELSE /\ started < MaxCalls
              /\ loading' = TRUE
              /\ error' = NoString
              /\ activeAgentId' = AGENT_ID
              /\ repoContext' = SubmittedRepo
              /\ loadingMessage' = AnalyzingFiles(Len(files))
              /\ Launch(NewCall("repo", Empty, files))
  /\ UNCHANGED <<code, reviewResult, settled>>
  /\ UNCHANGED <<routeVars, repoInputVars>>

\* Mutant: a failure of the agent throws the stored review away.
AgentResponds_FailureDropsReview ==
  /\ \E c \in calls, o \in AgentResults \cup AgentThrown :
       /\ IF o \in AgentThrown
            THEN /\ error' = IF o.isError THEN o.message
                             ELSE "An unexpected error occurred."
                 /\ reviewResult' = Null
          ELSE IF o.success
            THEN LET review == parseAgentResult(o)
                 IN  /\ reviewResult' =
                          IF review # Null THEN review ELSE reviewResult
                     /\ UNCHANGED error
          ELSE /\ error' =
                    IF "error" \in DOMAIN o THEN o.error
                    ELSE "Failed to get review results. Please try again."
               /\ reviewResult' = Null
       /\ calls' = calls \ {c}
       /\ settled' = [call |-> c, outcome |-> o]
  /\ loading' = FALSE
  /\ activeAgentId' = NoString
  /\ UNCHANGED <<code, repoContext, loadingMessage, started>>
  /\ UNCHANGED <<routeVars, repoInputVars>>

\* handleSubmit and handleRepoSubmit from their await on: the agent's
\* answer or a thrown error, then the finally block.
AgentResponds ==
  /\ \E c \in calls, o \in AgentResults \cup AgentThrown :
       /\ IF o \in AgentThrown
            THEN /\ error' = IF o.isError THEN o.message
                             ELSE "An unexpected error occurred."
                 /\ UNCHANGED reviewResult
          ELSE IF o.success
            THEN LET review == parseAgentResult(o)
                 IN  /\ reviewResult' =
                          IF review # Null THEN review ELSE reviewResult
                     /\ UNCHANGED error
          ELSE /\ error' =
                    IF "error" \in DOMAIN o THEN o.error
                    ELSE "Failed to get review results. Please try again."
               /\ UNCHANGED reviewResult
       /\ calls' = calls \ {c}
       /\ settled' = [call |-> c, outcome |-> o]
  /\ loading' = FALSE
  /\ activeAgentId' = NoString
  /\ UNCHANGED <<code, repoContext, loadingMessage, started>>
  /\ UNCHANGED <<routeVars, repoInputVars>>

PageNext ==
  \/ SetCode
  \/ HandleSubmitStart
  \/ HandleRepoSubmitStart
  \/ AgentResponds

PageSpec == ClientInit /\ [][PageNext]_vars
\* The agent call completes: its await returns.
PageFairSpec == PageSpec /\ WF_vars(AgentResponds)

\* The calls a step makes.
CallsMade == {c \in calls' : c.id > started}

\* The state a submission may change.
submissionVars ==
  <<loading, error, reviewResult, activeAgentId, repoContext, loadingMessage>>

\* C29: a step that starts a submission sets loading; the step in which the
\* agent call of a submission returns, with a success, a failure or a thrown
\* error, sets loading to false and the active agent id to null, and while
\* loading is set such a step is still to come; no submission starts from
\* blank code or an empty file list, and a step that neither starts nor ends
\* a submission changes nothing a submission may change.
C29_LoadingIsSetAndReset ==
  /\ [][/\ CallsMade # {} => loading'
        /\ settled' # settled => (~loading' /\ activeAgentId' = NoString)
        /\ \A c \in CallsMade :
             /\ c.kind = "paste" => Trim(code) # Empty
             /\ c.kind = "repo" => Len(c.files) > 0
        /\ (CallsMade = {} /\ settled' = settled) =>
             UNCHANGED submissionVars]_vars
  /\ [](loading => calls # {})
  /\ loading ~> (~loading /\ activeAgentId = NoString)
\* A paste and a repository submission have started; one call threw.
C29_Witness ==
  /\ started = 2
  /\ settled # Null
  /\ settled.outcome \in AgentThrown
  /\ settled.call.kind = "repo"
  /\ ~loading
  /\ activeAgentId = NoString

\* The agent call failed: success false, or a thrown error.
Failing(o) == o \in AgentThrown \/ ~o.success

\* C30: the step in which a submission fails sets the error message and
\* leaves the stored review as it is, which is the review stored before the
\* submission when no other submission ran meanwhile; the step that starts a
\* submission clears the error; the step in which a submission succeeds
\* leaves the error as it is, which is null when no other submission ran
\* meanwhile.
C30_FailureKeepsReview ==
  [][/\ CallsMade # {} => error' = NoString
     /\ settled' # settled =>
          IF Failing(settled'.outcome)
            THEN /\ error' # NoString
                 /\ reviewResult' = reviewResult
                 /\ ~settled'.call.overlapped =>
                      reviewResult' = settled'.call.before
            ELSE /\ error' = error
                 /\ ~settled'.call.overlapped => error' = NoString]_vars
\* An earlier review is stored next to the error of a later submission.
C30_Witness ==
  /\ settled # Null
  /\ Failing(settled.outcome)
  /\ ~settled.call.overlapped
  /\ settled.call.before # Null
  /\ reviewResult = settled.call.before
  /\ error # NoString
=============================================================================
